---- MODULE Spec2Model ----
(***************************************************************************)
(* Adaptive failure learning engine of kenlester/Ai-platform               *)
(* (src/dev_tools/failure_learning_system.py): the event store, the        *)
(* pattern learner with its solution cache, the background analysis thread,*)
(* the anomaly-prediction loop and the recovery-orchestration loop         *)
(* monitor_system_health; the trend-prediction loop of                     *)
(* src/maintenance/predict_patterns.py; and the rate limiter and the retry *)
(* helper of the API server (src/main.py).                                 *)
(*                                                                         *)
(* Encodings.  A Python Optional value is a set with at most one element:  *)
(* None is {} and a value v is {v}.  A float that the code compares with   *)
(* a threshold is kept as an exact fraction <<numerator, denominator>>.    *)
(* A JSON text is represented by the JSON value it denotes.                *)
(***************************************************************************)
EXTENDS Integers, Sequences, FiniteSets, TLC

VARIABLES
    failure_events,    \* table failure_events: sequence of rows, id = index
    learned_patterns,  \* table learned_patterns: sequence of rows in rowid order
    solution_cache,    \* self.solution_cache: pattern key -> [solution, confidence]
    event_queue,       \* self.event_queue: FIFO of references to FailureEvent objects
    heap,              \* the FailureEvent objects, by reference (index)
    analysis_pc,       \* analysis thread: "get" (blocked in queue.get), "analyze", "dead"
    analysis_event,    \* the analysis thread's local `event` (reference, 0 when none)
    fitted,            \* anomaly_detector has been fit
    last_training,     \* self.last_training
    monitor_i,         \* orchestrator: 0 at the top of an iteration, else index of the next service
    system_state,      \* orchestrator's local system_state snapshot
    commands,          \* pvesh commands the orchestrator has executed
    applied,           \* history: what _analyze_event did, in order
    last_scan,         \* history: what the last _analyze_patterns call saw and did
    last_step,         \* history: what the last per-service step of the orchestrator did
    last_call,         \* history: outcome of the last direct get_recovery_solution call
    detections,        \* history: number of failure detections of the orchestrator
    clock,             \* what time.time() returns
    store_up,          \* the database file can be opened and written
    last_record,       \* history: outcome of the last record_failure call of a client
    idle,              \* seconds the analysis thread has waited in its current queue.get
    scan_age,          \* seconds since the thread started or last ran _analyze_patterns
    monitor_pc,        \* orchestrator: "run", "blocked" (in a subprocess.run), "dead",
                       \* "recover" (in the subprocess.run of a recovery command)
    prediction,        \* prediction thread: its position, what its last cycle raised and
                       \* the number of INSERTs it executed
    failure_predictions, \* table failure_predictions
    trend,             \* trend-prediction loop: its position and what its last cycle raised
    pattern_memory,    \* NeuralPredictor.pattern_memory: pattern type -> rolling window
    pattern_history,   \* table pattern_history
    pattern_predictions, \* table pattern_predictions
    last_update,       \* history: the last record_recovery_attempt call and what it left
    last_emergence,    \* history: the last _determine_emergence_type call and its value
    rate_limit_data,   \* main.py rate_limit_data: client address -> [count, start_time]
    rate_window,       \* history: per client, the window its latest request fell in
    last_request,      \* history: the last check_rate_limit call and its status
    retry              \* one retry_request call: position, attempt, calls made, waits

vars == <<failure_events, learned_patterns, solution_cache, event_queue, heap,
          analysis_pc, analysis_event, fitted, last_training, monitor_i,
          system_state, commands, applied, last_scan, last_step, last_call,
          detections, clock, store_up, last_record, idle, scan_age, monitor_pc,
          prediction, failure_predictions, trend, pattern_memory, pattern_history,
          pattern_predictions, last_update, last_emergence, rate_limit_data,
          rate_window, last_request, retry>>

store_vars   == <<failure_events, learned_patterns>>
learner_vars == <<solution_cache, event_queue, heap, analysis_pc, analysis_event,
                  fitted, last_training, applied, last_scan, idle, scan_age>>
monitor_vars == <<monitor_i, system_state, commands, last_step, monitor_pc>>
timer_vars   == <<idle, scan_age>>
predictor_vars == <<prediction, failure_predictions>>
trend_vars   == <<trend, pattern_memory, pattern_history, pattern_predictions>>
\* what the learner's and the orchestrator's operations never touch
loops_vars   == <<store_up, predictor_vars, trend_vars>>
\* state of the API server of src/main.py
main_vars    == <<rate_limit_data, rate_window, last_request, retry>>
\* histories of the calls a client makes on the store and on the trend predictor,
\* and the API server's state, which no operation of the engine touches
call_vars    == <<last_update, last_emergence, main_vars>>

----------------------------------------------------------------------------
(* Bounds of the model *)

\* record_failure calls of a client, beside a running orchestrator
MaxApiEvents == 2

\* requests one client sends in one window of the rate limiter
MaxRequestCount == 32

\* retry_request calls that are followed
MaxRetryRuns == 3
\* record_failure calls of a client of the learner alone
MaxLearnerEvents == 3
\* failure detections of the orchestrator
MaxDetections == 1
\* record_failure calls in the end-to-end scenario of one pattern key
MaxScenarioEvents == 10
\* failed recoveries among them
MaxScenarioFailures == 1
\* record_failure calls with field strings that hold the key's separator
MaxKeyEvents == 3
\* rows of pattern_history the trend-prediction loop writes
MaxTrendRows == 2
\* rows a client inserts while the store fails and recovers
MaxStoreEvents == 3
\* events that arrive in the timed scenario: enough for arrivals 59 s apart
\* to span more than one training interval
MaxArrivalEvents == 62
\* record_failure calls of a client that also reports recovery outcomes
MaxRecoveryEvents == 2
\* record_recovery_attempt calls of that client
MaxRecoveryCalls == 2
\* samples fed to the rolling windows: enough to fill one window past its
\* capacity while another type has a window too
MaxWindowSamples == 12
\* samples of the scenario of efficiency trends: one full window
MaxSlopeSamples == 10
\* record_failure calls of a client whose snapshots the predictor reads
MaxExtractEvents == 2
\* samples of the scenario of evolution predictions: one full window and
\* one sample more
MaxEvolutionSamples == 11
\* rows of failure_predictions in the scenario of a detector that scores
MaxPredictionRows == 2
\* rows of pattern_history in the scenario of a store that fails between
\* the two writes of the trend loop
MaxTrendFaultRows == 3

----------------------------------------------------------------------------
(* Python values *)

None == {}
Some(v) == {v}
TheValue(o) == CHOOSE v \in o : TRUE

\* truth value of an Optional[bool] in `if x:` and `1 if x else 0`
Truthy(o) == o = Some(TRUE)

\* dict.get(key, default)
DictGet(d, k, default) == IF k \in DOMAIN d THEN d[k] ELSE default

\* sqlite3 adapts a Python bool bound to an INTEGER column to 1 / 0, None to NULL
SqlBool(o) == IF o = None THEN None ELSE IF o = Some(TRUE) THEN Some(1) ELSE Some(0)

\* json.dumps of the system-state snapshot: a tuple is written as a JSON array
JsonDumpsState(s) ==
    [k \in DOMAIN s |->
        IF s[k].type = "tuple" THEN [type |-> "list", items |-> s[k].items] ELSE s[k]]

\* json.loads of a stored snapshot: a JSON array is read as a list, whatever
\* sequence type was written
JsonLoadsState(t) ==
    [k \in DOMAIN t |->
        IF t[k].type \in {"list", "tuple"} THEN [type |-> "list", items |-> t[k].items]
        ELSE t[k]]

Max2(a, b) == IF a >= b THEN a ELSE b

RECURSIVE SeqMax(_)
SeqMax(s) == IF Len(s) = 1 THEN s[1] ELSE Max2(s[1], SeqMax(Tail(s)))

----------------------------------------------------------------------------
(* Exceptions and the handlers that guard the loops *)

\* the exception classes raised in the model that derive from Exception;
\* asyncio's CancelledError derives from BaseException and is not among them
ExceptionClasses ==
    {"NameError", "OperationalError", "ProgrammingError", "NotFittedError",
     "ValueError", "FileNotFoundError", "JSONDecodeError", "CalledProcessError",
     "AttributeError", "IndexError", "TypeError", "HTTPStatusError",
     "TimeoutException"}

\* an `except Exception` clause: catches what derives from Exception
ExceptException(exc) == exc \in ExceptionClasses

\* sqlite3.connect / cursor.execute / conn.commit on a store that cannot be
\* opened or written
StoreRaises(up) == IF up THEN None ELSE Some("OperationalError")

\* _background_analysis, `except Exception` (line 207): guards the try body
AnalysisTryCatches(exc) == ExceptException(exc)

\* _background_analysis: the body of `except queue.Empty` (line 206) is not
\* inside any try statement of the loop
EmptyHandlerCatches(exc) == FALSE

\* a per-service handler that catches the errors of the commands only
PerServiceCatches_CommandErrorsOnly(exc) == exc \in {"CalledProcessError", "FileNotFoundError"}

\* monitor_system_health, `except Exception` of the for body (line 731)
PerServiceCatches(exc) == ExceptException(exc)

\* monitor_system_health, `except Exception` of the while body (line 744)
MonitorLoopCatches(exc) == ExceptException(exc)

\* a prediction loop that catches the errors of the store only
PredictionLoopCatches_StoreErrorsOnly(exc) == exc \in {"OperationalError", "ProgrammingError"}

\* _prediction_loop, `except Exception` (line 381)
PredictionLoopCatches(exc) == ExceptException(exc)

\* _extract_prediction_features, `except (json.JSONDecodeError, IndexError,
\* ValueError)` around the extraction of one row (line 464)
ExtractCatches(exc) == exc \in {"JSONDecodeError", "IndexError", "ValueError"}

\* predict_patterns.main, `except Exception` (line 279)
TrendLoopCatches(exc) == ExceptException(exc)

----------------------------------------------------------------------------
(* FailureEvent objects and the inputs of the model *)

FailureEvent(ts, service, container_id, error_type, msg, state, attempt, success, rtime) ==
    [timestamp |-> ts, service |-> service, container_id |-> container_id,
     error_type |-> error_type, error_message |-> msg,
     system_state |-> state, recovery_attempt |-> attempt,
     recovery_success |-> success, recovery_time |-> rtime]

\* readings of time.time(), the host's wall clock in seconds since the
\* epoch, which the code does not constrain.  The fifth feature of a pattern
\* is the reading itself, so a pattern with success rate above 0.8 has a
\* confidence above 0.7 only at a reading below 2 (and, by float rounding,
\* at reading 2 with two successes: 0.7000000000000001).  1 is such a
\* reading; 60, the idle timeout of queue.get, stands for every later time.
ClockReadings == {1, 60}

\* a system-state mapping as a client passes it
ApiState == [load_avg |-> [type |-> "list", items |-> <<0>>]]

ApiTriples == {<<"ollama", "container_inactive", "200">>,
               <<"qdrant", "container_inactive", "201">>}

\* the events a client records: (service, error_type, container_id,
\* recovery_attempt, recovery_success)
ApiInputs == {<<"ollama", "container_inactive", "200", "restart cmd", TRUE>>,
              <<"ollama", "container_inactive", "200", "start cmd", TRUE>>,
              <<"ollama", "container_inactive", "200", "restart cmd", FALSE>>,
              <<"qdrant", "container_inactive", "201", "start cmd", TRUE>>}

ApiEvents ==
    {FailureEvent(1, i[1], i[3], i[2], "msg", ApiState, Some(i[4]), Some(i[5]), Some(1)) :
        i \in ApiInputs}

\* (recovery_attempt, recovery_success, recovery_time) of a recorded event
Recoveries == {<<None, None, None>>,
               <<Some("restart cmd"), Some(TRUE), Some(1)>>,
               <<Some("start cmd"), Some(TRUE), Some(1)>>,
               <<Some("restart cmd"), Some(FALSE), Some(1)>>}

LearnerEvents ==
    {FailureEvent(1, t[1], t[3], t[2], "msg", ApiState, r[1], r[2], r[3]) :
        t \in ApiTriples, r \in Recoveries}

\* the end-to-end scenario: one key, remedy "restart cmd" succeeding or failing
ScenarioEvents ==
    {FailureEvent(1, "ollama", "200", "container_inactive", "msg", ApiState,
                  Some("restart cmd"), Some(ok), Some(1)) : ok \in BOOLEAN}

\* events whose field strings do or do not hold the separator of the pattern key
KeyEvents ==
    {FailureEvent(1, s, c, e, "msg", ApiState, None, None, None) :
        s \in {"a", "a:b"}, e \in {"c", "b:c"}, c \in {"1"}}

----------------------------------------------------------------------------
(* Pattern learner: pure parts *)

\* f"{service}:{error_type}:{container_id}"
PatternKey(service, error_type, container_id) ==
    service \o ":" \o error_type \o ":" \o container_id

EventKey(ev) == PatternKey(ev.service, ev.error_type, ev.container_id)

\* 1 if event.recovery_success else 0
SuccessIncrement(ev) == IF Truthy(ev.recovery_success) THEN 1 ELSE 0

\* a learner that counts only a recovery known to have failed
FailIncrement_OnlyKnownFailure(ev) == IF ev.recovery_success = Some(FALSE) THEN 1 ELSE 0

\* 0 if event.recovery_success else 1
FailIncrement(ev) == IF Truthy(ev.recovery_success) THEN 0 ELSE 1

\* rowid of the row WHERE pattern_hash = key, 0 when there is none
RowOf(patterns, key) ==
    IF \E i \in 1..Len(patterns) : patterns[i].pattern_hash = key
    THEN CHOOSE i \in 1..Len(patterns) : patterns[i].pattern_hash = key
    ELSE 0

\* an upsert that replaces the row of a known key (INSERT OR REPLACE)
Upsert_Replace(patterns, ev) ==
    LET key == EventKey(ev)
        i == RowOf(patterns, key)
        row == [pattern_hash |-> key,
                error_pattern |-> [service |-> ev.service,
                                   error_type |-> ev.error_type,
                                   container_id |-> ev.container_id],
                success_count |-> SuccessIncrement(ev),
                fail_count |-> FailIncrement(ev),
                last_seen |-> ev.timestamp,
                best_solution |-> None,
                neural_weights |-> None,
                confidence_score |-> None]
    IN  IF i = 0 THEN Append(patterns, row) ELSE [patterns EXCEPT ![i] = row]

\* INSERT INTO learned_patterns ... ON CONFLICT(pattern_hash) DO UPDATE SET ...
Upsert(patterns, ev) ==
    LET key == EventKey(ev)
        i == RowOf(patterns, key)
    IN  IF i = 0
        THEN Append(patterns,
                    [pattern_hash |-> key,
                     error_pattern |-> [service |-> ev.service,
                                        error_type |-> ev.error_type,
                                        container_id |-> ev.container_id],
                     success_count |-> SuccessIncrement(ev),
                     fail_count |-> FailIncrement(ev),
                     last_seen |-> ev.timestamp,
                     best_solution |-> None,
                     neural_weights |-> None,
                     confidence_score |-> None])
        ELSE [patterns EXCEPT ![i].success_count = @ + SuccessIncrement(ev),
                              ![i].fail_count = @ + FailIncrement(ev),
                              ![i].last_seen = ev.timestamp]

\* a learner that keeps the first successful remedy of a pattern
UpdateBestSolution_FirstWins(patterns, ev) ==
    LET i == RowOf(patterns, EventKey(ev))
    IN  IF Truthy(ev.recovery_success) /\ i # 0 /\ patterns[i].best_solution = None
        THEN [patterns EXCEPT ![i].best_solution = ev.recovery_attempt]
        ELSE patterns

\* if event.recovery_success: UPDATE learned_patterns SET best_solution = ?
UpdateBestSolution(patterns, ev) ==
    LET i == RowOf(patterns, EventKey(ev))
    IN  IF Truthy(ev.recovery_success) /\ i # 0
        THEN [patterns EXCEPT ![i].best_solution = ev.recovery_attempt]
        ELSE patterns

\* the features list of _analyze_patterns, each multiplied by total so that
\* the success rate success_count / total stays an integer:
\* [success_rate, total, success_count, fail_count, time.time() - last_seen]
Features(row, now) ==
    LET total == row.success_count + row.fail_count
    IN  <<row.success_count,
          total * total,
          row.success_count * total,
          row.fail_count * total,
          (now - DictGet(row.error_pattern, "last_seen", 0)) * total>>

\* weights of _calculate_confidence, in tenths
Weights == <<4, 2, 2, 1, 1>>

\* _calculate_confidence: dot(features / max(features), weights), as a
\* fraction; a common factor of the features cancels in the normalisation
CalculateConfidence(features) ==
    <<Weights[1] * features[1] + Weights[2] * features[2] + Weights[3] * features[3]
        + Weights[4] * features[4] + Weights[5] * features[5],
      10 * SeqMax(features)>>

\* fraction f > num/den (den > 0); a zero denominator is numpy's nan, which
\* compares false
FracGT(f, num, den) ==
    IF f[2] = 0 THEN FALSE
    ELSE IF f[2] > 0 THEN f[1] * den > num * f[2]
    ELSE f[1] * den < num * f[2]

\* success_rate > 0.8
RateAboveThreshold(row) ==
    FracGT(<<row.success_count, row.success_count + row.fail_count>>, 8, 10)

\* confidence > 0.7
ConfidenceAboveThreshold(row, now) ==
    FracGT(CalculateConfidence(Features(row, now)), 7, 10)

\* the two nested conditions under which _analyze_patterns writes the cache
Promotes(row, now) ==
    /\ row.success_count + row.fail_count > 0
    /\ RateAboveThreshold(row)
    /\ ConfidenceAboveThreshold(row, now)

----------------------------------------------------------------------------
(* Event store and learner operations *)

\* the row that record_failure inserts for an event
EventRow(ev) ==
    [timestamp |-> ev.timestamp, service |-> ev.service,
     container_id |-> ev.container_id, error_type |-> ev.error_type,
     error_message |-> ev.error_message,
     system_state |-> JsonDumpsState(ev.system_state),
     recovery_attempt |-> ev.recovery_attempt,
     recovery_success |-> SqlBool(ev.recovery_success),
     recovery_time |-> ev.recovery_time]

\* a stored event as the code reads it back: the columns of the SELECT of
\* _predict_failures, the snapshot through json.loads
ReadEvent(row) ==
    [timestamp |-> row.timestamp, service |-> row.service,
     container_id |-> row.container_id, error_type |-> row.error_type,
     system_state |-> JsonLoadsState(row.system_state)]

\* names that are bound where get_recovery_solution evaluates `solution`
\* (line 361): its parameters, the locals assigned before, the module's globals
NamesInScope ==
    {"self", "service", "error_type", "container_id", "pattern_key", "solution_data",
     "json", "logging", "os", "time", "subprocess", "datetime", "sqlite3",
     "defaultdict", "threading", "queue", "np", "pd", "IsolationForest",
     "StatusCodes", "JsonFormatter", "FailureEvent", "FailureLearningSystem",
     "check_container_status", "monitor_system_health"}

\* _predict_success_probability, as a fraction
PredictSuccessProbability(patterns, key) ==
    LET i == RowOf(patterns, key)
    IN  IF i # 0 /\ patterns[i].neural_weights # None
        THEN LET sc == patterns[i].success_count
                 total == sc + patterns[i].fail_count
                 base == IF total > 0 THEN <<sc, total>> ELSE <<1, 2>>
                 conf == CalculateConfidence(TheValue(patterns[i].neural_weights))
             IN  <<7 * base[1] * conf[2] + 3 * conf[1] * base[2],
                   10 * base[2] * conf[2]>>
        ELSE <<1, 2>>

\* a lookup that raises nothing and answers a default remedy for a key that
\* is not in the cache
GetRecoverySolution_DefaultRemedy(cache, patterns, service, error_type, container_id) ==
    LET pattern_key == PatternKey(service, error_type, container_id)
    IN  [raised |-> None,
         value |-> Some([solution |-> IF pattern_key \in DOMAIN cache
                                      THEN cache[pattern_key].solution
                                      ELSE Some("restart"),
                         confidence |-> <<1, 2>>,
                         predicted_success_rate |->
                             PredictSuccessProbability(patterns, pattern_key)])]

\* get_recovery_solution: what it raises and what it returns
GetRecoverySolution(cache, patterns, service, error_type, container_id) ==
    LET pattern_key == PatternKey(service, error_type, container_id)
        solution_data == IF pattern_key \in DOMAIN cache
                         THEN Some(cache[pattern_key]) ELSE None
    IN  IF "solution" \notin NamesInScope
        THEN [raised |-> Some("NameError"), value |-> None]
        ELSE IF solution_data # None
        THEN [raised |-> None,
              value |-> Some([solution |-> TheValue(solution_data).solution,
                              confidence |-> TheValue(solution_data).confidence,
                              predicted_success_rate |->
                                  PredictSuccessProbability(patterns, pattern_key)])]
        ELSE [raised |-> None, value |-> None]

\* conn.close() (line 299) precedes the loop whose body runs cursor.execute
\* (line 330): sqlite3 raises ProgrammingError on a closed connection
ConnOpenAtUpdate == FALSE

\* solution_cache[pattern_hash] = {...}
CachePut(cache, key, entry) ==
    [k \in DOMAIN cache \cup {key} |-> IF k = key THEN entry ELSE cache[k]]

\* the loop of _analyze_patterns over the fetched rows, from row i on:
\* the cache it leaves, the keys it wrote, the number of feature rows it
\* collected and the exception that ended it, if any
RECURSIVE ScanLoop(_, _, _, _, _, _)
ScanLoop(rows, clk, i, cache, wrote, nfeatures) ==
    IF i > Len(rows)
    THEN [cache |-> cache, wrote |-> wrote, nfeatures |-> nfeatures, raised |-> None]
    ELSE IF rows[i].success_count + rows[i].fail_count > 0
    THEN IF Promotes(rows[i], clk[i])
         THEN LET written ==
                      CachePut(cache, rows[i].pattern_hash,
                               [solution |-> rows[i].best_solution,
                                confidence |->
                                    CalculateConfidence(Features(rows[i], clk[i]))])
              IN  IF ConnOpenAtUpdate
                  THEN ScanLoop(rows, clk, i + 1, written,
                                wrote \cup {rows[i].pattern_hash}, nfeatures + 1)
                  ELSE [cache |-> written,
                        wrote |-> wrote \cup {rows[i].pattern_hash},
                        nfeatures |-> nfeatures + 1,
                        raised |-> Some("ProgrammingError")]
         ELSE ScanLoop(rows, clk, i + 1, cache, wrote, nfeatures + 1)
    ELSE ScanLoop(rows, clk, i + 1, cache, wrote, nfeatures)


\* last_update before a client has called record_recovery_attempt
NoUpdate ==
    [called |-> FALSE, event_id |-> None, attempt |-> "", success |-> FALSE,
     time_taken |-> 0, raised |-> None, calls |-> 0]

\* last_request before any request has reached check_rate_limit
NoRequest == [called |-> FALSE, client_ip |-> "", current_time |-> 0, raised |-> None]

\* retry before retry_request has been called
NoRetry == [pc |-> "idle", attempt |-> 0, calls |-> <<>>, waits |-> <<>>, outcome |-> None, runs |-> 0]

\* last_emergence before _determine_emergence_type has been called
NoEmergence ==
    [called |-> FALSE, state_analysis |-> <<>>, patterns |-> <<>>, value |-> ""]

\* last_step before the orchestrator has made a pass
NoStep ==
    [ran |-> FALSE, service |-> "", container_id |-> "", probe |-> "", status |-> "",
     unhealthy |-> FALSE, cached |-> FALSE, cached_solution |-> None,
     store_failed |-> FALSE, looked_up |-> FALSE, raised |-> None,
     commands |-> <<>>, recorded |-> <<>>, outcome |-> None]

Init ==
    /\ failure_events = <<>>
    /\ learned_patterns = <<>>
    /\ solution_cache = <<>>
    /\ event_queue = <<>>
    /\ heap = <<>>
    /\ analysis_pc = "get"
    /\ analysis_event = 0
    /\ fitted = FALSE
    /\ last_training = 0
    /\ monitor_i = 0
    /\ system_state = [timestamp |-> [type |-> "float", items |-> <<0>>]]
    /\ commands = <<>>
    /\ detections = 0
    /\ clock \in ClockReadings
    /\ applied = <<>>
    /\ last_scan = [ran |-> FALSE, after |-> 0, promoted |-> {}, wrote |-> {},
                    raised |-> None]
    /\ last_step = NoStep
    /\ last_call = [called |-> FALSE, service |-> "", error_type |-> "",
                    container_id |-> "", raised |-> None, value |-> None]
    /\ store_up = TRUE
    /\ last_record = [called |-> FALSE, raised |-> None, pending |-> None,
                      returned |-> None, row |-> 0]
    /\ idle = 0
    /\ scan_age = 0
    /\ monitor_pc = "run"
    /\ prediction = [pc |-> "predict", raised |-> None, executed |-> 0]
    /\ failure_predictions = <<>>
    /\ trend = [pc |-> "cycle", raised |-> None]
    /\ pattern_memory = <<>>
    /\ pattern_history = <<>>
    /\ pattern_predictions = <<>>
    /\ last_update = NoUpdate
    /\ last_emergence = NoEmergence
    /\ rate_limit_data = <<>>
    /\ rate_window = <<>>
    /\ last_request = NoRequest
    /\ retry = NoRetry

\* what record_failure hands back to its caller: the function has no return
\* statement, so the call evaluates to None
RecordFailureReturns == None

\* record_failure(event) for a new event object passed by a client: INSERT,
\* commit, close, then event_queue.put; an error of the store leaves the
\* function at the statement that raised it
RecordFailure(ev) ==
    /\ IF store_up
       THEN /\ heap' = Append(heap, ev)
            /\ failure_events' = Append(failure_events, EventRow(ev))
            /\ event_queue' = Append(event_queue, Len(heap) + 1)
       ELSE UNCHANGED <<heap, failure_events, event_queue>>
    /\ last_record' = [called |-> TRUE, raised |-> StoreRaises(store_up),
                       pending |-> None, returned |-> RecordFailureReturns,
                       row |-> IF store_up THEN Len(failure_events) + 1 ELSE 0]
    /\ UNCHANGED <<learned_patterns, solution_cache, analysis_pc, analysis_event,
                   fitted, last_training, applied, last_scan, timer_vars,
                   monitor_vars, detections, last_call, call_vars, clock, loops_vars>>

\* a record_failure that logs an error of the store and goes on to the put
RecordFailureInsert_IgnoreError(ev) ==
    /\ failure_events' = IF store_up THEN Append(failure_events, EventRow(ev))
                         ELSE failure_events
    /\ last_record' = [called |-> TRUE, raised |-> None, pending |-> Some(ev),
                       returned |-> RecordFailureReturns,
                       row |-> IF store_up THEN Len(failure_events) + 1 ELSE 0]
    /\ UNCHANGED <<learned_patterns, learner_vars, monitor_vars, detections,
                   last_call, call_vars, clock, loops_vars>>

\* record_failure in two steps, for the threads that run between them.
\* First step, lines 161-193: INSERT, commit and close; an error of the
\* store leaves the function there
RecordFailureInsert(ev) ==
    /\ failure_events' = IF store_up THEN Append(failure_events, EventRow(ev))
                         ELSE failure_events
    /\ last_record' = [called |-> TRUE, raised |-> StoreRaises(store_up),
                       pending |-> IF store_up THEN Some(ev) ELSE None,
                       returned |-> RecordFailureReturns,
                       row |-> IF store_up THEN Len(failure_events) + 1 ELSE 0]
    /\ UNCHANGED <<learned_patterns, learner_vars, monitor_vars, detections,
                   last_call, call_vars, clock, loops_vars>>

\* second step, line 196: self.event_queue.put(event)
RecordFailurePut ==
    /\ last_record.pending # None
    /\ heap' = Append(heap, TheValue(last_record.pending))
    /\ event_queue' = Append(event_queue, Len(heap) + 1)
    /\ last_record' = [last_record EXCEPT !.pending = None]
    /\ UNCHANGED <<store_vars, solution_cache, analysis_pc, analysis_event,
                   fitted, last_training, applied, last_scan, timer_vars,
                   monitor_vars, detections, last_call, call_vars, clock, loops_vars>>

\* UPDATE failure_events SET recovery_attempt = ?, recovery_success = ?,
\* recovery_time = ? WHERE id = ?: the id of a row is its position, and id = NULL
\* is true of no row
UpdateRecovery(rows, event_id, attempt, success, time_taken) ==
    [i \in 1..Len(rows) |->
        IF event_id = Some(i)
        THEN [rows[i] EXCEPT !.recovery_attempt = Some(attempt),
                             !.recovery_success = SqlBool(Some(success)),
                             !.recovery_time = Some(time_taken)]
        ELSE rows[i]]

\* a client calls record_recovery_attempt(event_id, attempt, success, time_taken)
RecordRecoveryAttempt(event_id, attempt, success, time_taken) ==
    /\ failure_events' = IF store_up
                         THEN UpdateRecovery(failure_events, event_id, attempt,
                                             success, time_taken)
                         ELSE failure_events
    /\ last_update' = [called |-> TRUE, event_id |-> event_id, attempt |-> attempt,
                       success |-> success, time_taken |-> time_taken,
                       raised |-> StoreRaises(store_up),
                       calls |-> last_update.calls + 1]
    /\ UNCHANGED <<learned_patterns, learner_vars, monitor_vars, detections,
                   last_call, clock, last_record, loops_vars, last_emergence,
                   main_vars>>

\* a client calls get_recovery_solution
CallGetRecoverySolution(service, error_type, container_id) ==
    LET r == GetRecoverySolution(solution_cache, learned_patterns,
                                 service, error_type, container_id)
    IN  /\ last_call' = [called |-> TRUE, service |-> service,
                         error_type |-> error_type, container_id |-> container_id,
                         raised |-> r.raised, value |-> r.value]
        /\ UNCHANGED <<store_vars, learner_vars, monitor_vars, detections, clock,
                       last_record, loops_vars, call_vars>>

\* a get that hands out the oldest entry and leaves it on the queue
AnalysisGet_LeavesHead ==
    /\ analysis_pc = "get"
    /\ event_queue # <<>>
    /\ analysis_event' = Head(event_queue)
    /\ analysis_pc' = "analyze"
    /\ UNCHANGED <<store_vars, solution_cache, event_queue, heap, fitted,
                   last_training, applied, last_scan, timer_vars, monitor_vars,
                   detections, last_call, call_vars, clock, last_record, loops_vars>>

\* _background_analysis: event = self.event_queue.get(timeout=60) returns
AnalysisGet ==
    /\ analysis_pc = "get"
    /\ event_queue # <<>>
    /\ analysis_event' = Head(event_queue)
    /\ event_queue' = Tail(event_queue)
    /\ analysis_pc' = "analyze"
    /\ UNCHANGED <<store_vars, solution_cache, heap, fitted, last_training,
                   applied, last_scan, timer_vars, monitor_vars, detections,
                   last_call, call_vars, clock, last_record, loops_vars>>

\* _background_analysis: self._analyze_event(event) inside the try block.
\* An error of the store is raised before the commit, so nothing of the
\* event is stored; the handler of line 207 logs it and the loop calls
\* queue.get again
AnalyzeEvent ==
    /\ analysis_pc = "analyze"
    /\ LET ev == heap[analysis_event]
           upserted == Upsert(learned_patterns, ev)
           raised == StoreRaises(store_up)
       IN  /\ IF raised = None
              THEN /\ learned_patterns' = UpdateBestSolution(upserted, ev)
                   /\ applied' = Append(applied,
                                        [event |-> analysis_event,
                                         row |-> RowOf(upserted, EventKey(ev)),
                                         recovery_success |-> ev.recovery_success,
                                         recovery_attempt |-> ev.recovery_attempt])
              ELSE UNCHANGED <<learned_patterns, applied>>
           /\ analysis_pc' = IF raised = None \/ AnalysisTryCatches(TheValue(raised))
                             THEN "get" ELSE "dead"
    /\ analysis_event' = 0
    /\ idle' = 0
    /\ UNCHANGED <<failure_events, solution_cache, event_queue, heap, fitted,
                   last_training, last_scan, scan_age, monitor_vars, detections,
                   last_call, call_vars, clock, last_record, loops_vars>>

\* a scan that fits the detector whatever it collected
Retrains_Always(nfeatures) == TRUE

\* `if pattern_features:` (line 338): the detector is fit when the scan
\* collected at least one feature row
Retrains(nfeatures) == nfeatures > 0

\* _background_analysis: queue.get times out and the handler of queue.Empty
\* runs self._analyze_patterns().  The SELECT of the scan raises when the
\* store cannot be opened, the UPDATE after a cache write raises on the
\* closed connection; either is raised inside the except clause, where no
\* handler of the try statement applies, and ends the thread
AnalyzePatterns ==
    /\ analysis_pc = "get"
    /\ event_queue = <<>>
    /\ LET clk == [i \in 1..Len(learned_patterns) |-> clock]
           trained_at == clock
           scan == IF store_up
                   THEN ScanLoop(learned_patterns, clk, 1, solution_cache, {}, 0)
                   ELSE [cache |-> solution_cache, wrote |-> {}, nfeatures |-> 0,
                         raised |-> StoreRaises(store_up)]
       IN  /\ solution_cache' = scan.cache
           /\ last_scan' = [ran |-> TRUE, after |-> Len(applied),
                            promoted |-> {learned_patterns[i].pattern_hash :
                                i \in {j \in 1..Len(learned_patterns) :
                                           Promotes(learned_patterns[j], clk[j])}},
                            wrote |-> scan.wrote, raised |-> scan.raised]
           /\ IF scan.raised # None
              THEN /\ analysis_pc' = IF EmptyHandlerCatches(TheValue(scan.raised))
                                     THEN "get" ELSE "dead"
                   /\ UNCHANGED <<fitted, last_training>>
              ELSE /\ analysis_pc' = "get"
                   /\ IF Retrains(scan.nfeatures)
                      THEN fitted' = TRUE /\ last_training' = trained_at
                      ELSE UNCHANGED <<fitted, last_training>>
    /\ idle' = 0
    /\ scan_age' = 0
    /\ UNCHANGED <<store_vars, event_queue, heap, analysis_event, applied,
                   monitor_vars, detections, last_call, call_vars, clock, last_record,
                   loops_vars>>

----------------------------------------------------------------------------
(* Recovery orchestrator: check_container_status and monitor_system_health *)

services_to_check == <<<<"ollama", "200">>, <<"qdrant", "201">>, <<"mcp", "203">>>>

\* what running pvesh can do: exit 0 and print a JSON object with a status,
\* exit 0 and print text that is no JSON, exit 0 and print JSON that is no
\* object, exit with a non-zero code, or not start at all
BasicProbes == {[kind |-> "object", status |-> "running"],
                [kind |-> "object", status |-> "stopped"]}

Probes == BasicProbes \cup {[kind |-> "not_json", status |-> ""],
                            [kind |-> "not_object", status |-> ""],
                            [kind |-> "nonzero", status |-> ""],
                            [kind |-> "missing", status |-> ""]}

\* the exception raised inside the try block of check_container_status
ProbeRaises(probe) ==
    IF probe.kind = "nonzero" THEN Some("CalledProcessError")
    ELSE IF probe.kind = "not_json" THEN Some("JSONDecodeError")
    ELSE IF probe.kind = "not_object" THEN Some("AttributeError")
    ELSE IF probe.kind = "missing" THEN Some("FileNotFoundError")
    ELSE None

\* check_container_status: the 'status' of the mapping it returns
CheckContainerStatus(probe) ==
    LET raised == ProbeRaises(probe)
    IN  IF raised = None THEN probe.status
        ELSE IF raised = Some("CalledProcessError") THEN "error"
        ELSE IF raised = Some("JSONDecodeError") THEN "unknown"
        ELSE "error"

\* status_data.get('status', '').startswith('running')
StartsWithRunning(status) == status \in {"running"}

\* `x in d` for a dict d: membership among its keys
InDict(x, d) == x \in DOMAIN d

RecoveryCommand(action, container_id) ==
    "pvesh create /nodes/pve/lxc/" \o container_id \o "/status/" \o action

\* what running the recovery command can do: exit 0, exit with a non-zero
\* code (CalledProcessError, handled at line 706), or not start at all
CommandOutcomes == {"ok", "nonzero", "missing"}

\* the body of the for loop for one (service, container_id) after the probe:
\* what it leaves behind, given the probe's status, the outcome r of the
\* lookup of line 681, the clock, the outcome of the command and whether the
\* store can be written.  The event object is one reference: the second
\* record_failure enqueues the object of the first, with its recovery fields
\* assigned in between.
ServiceStep(r, service, container_id, status, now, cmd_out, up) ==
    LET event == FailureEvent(now, service, container_id, "container_inactive",
                              "Container " \o container_id \o " status: " \o status,
                              system_state, None, None, None)
        ref == Len(heap) + 1
        rows1 == Append(failure_events, EventRow(event))
        queue1 == Append(event_queue, ref)
        cmd == IF InDict("restart", TheValue(r.value))
               THEN RecoveryCommand("restart", container_id)
               ELSE RecoveryCommand("start", container_id)
        event2 == [event EXCEPT !.recovery_attempt = Some(cmd),
                                !.recovery_success = Some(cmd_out = "ok"),
                                !.recovery_time = Some(1)]
        untouched == [heap |-> heap, rows |-> failure_events, queue |-> event_queue,
                      commands |-> <<>>, recorded |-> <<>>, raised |-> None,
                      looked_up |-> FALSE]
        recorded1 == [heap |-> Append(heap, event), rows |-> rows1, queue |-> queue1,
                      commands |-> <<>>, recorded |-> <<EventRow(event)>>,
                      raised |-> None, looked_up |-> TRUE]
    IN  IF StartsWithRunning(status)
        THEN untouched
        ELSE IF ~up
        THEN \* record_failure raises at line 678
             [untouched EXCEPT !.raised = StoreRaises(up)]
        ELSE IF r.raised # None
        THEN \* get_recovery_solution raises at line 681
             [recorded1 EXCEPT !.raised = r.raised]
        ELSE IF r.value = None
        THEN recorded1
        ELSE IF cmd_out = "missing"
        THEN \* subprocess.run raises at line 701
             [recorded1 EXCEPT !.commands = <<cmd>>,
                               !.raised = Some("FileNotFoundError")]
        ELSE [heap |-> Append(heap, event2),
              rows |-> Append(rows1, EventRow(event2)),
              queue |-> Append(queue1, ref),
              commands |-> <<cmd>>,
              recorded |-> <<EventRow(event), EventRow(event2)>>,
              raised |-> None, looked_up |-> TRUE]

\* the snapshot taken at the top of an iteration
Snapshot(now) ==
    [timestamp |-> [type |-> "float", items |-> <<now>>],
     memory_usage |-> [type |-> "str", items |-> <<"free -m">>],
     disk_usage |-> [type |-> "str", items |-> <<"df -h">>],
     load_avg |-> [type |-> "tuple", items |-> <<0, 0, 0>>]]

\* top of an iteration of the while loop: take the system-state snapshot; an
\* error of `free`, `df` or os.getloadavg reaches the handler of line 744,
\* which sleeps and lets the while loop start over
MonitorCollect ==
    /\ monitor_pc = "run"
    /\ monitor_i = 0
    /\ \E collected \in BOOLEAN :
          IF collected
          THEN /\ system_state' = Snapshot(clock)
               /\ monitor_i' = 1
               /\ monitor_pc' = "run"
          ELSE /\ monitor_pc' = IF MonitorLoopCatches("FileNotFoundError")
                                THEN "run" ELSE "dead"
               /\ UNCHANGED <<system_state, monitor_i>>
    /\ UNCHANGED <<store_vars, learner_vars, commands, last_step, detections,
                   last_call, call_vars, clock, last_record, loops_vars>>

\* one pass of the for loop, given what the probe does, the outcome r of the
\* lookup and what the command does; after the last service the loop sleeps
\* and restarts.  An exception of the pass goes to the handler of line 731,
\* and past it to the handler of line 744, which abandons the for loop
MonitorPass(probe, r, cmd_out) ==
    LET now == clock
        service == services_to_check[monitor_i][1]
        container_id == services_to_check[monitor_i][2]
        status == CheckContainerStatus(probe)
        step == ServiceStep(r, service, container_id, status, now, cmd_out,
                                 store_up)
        key == PatternKey(service, "container_inactive", container_id)
        next_i == IF monitor_i = Len(services_to_check) THEN 0 ELSE monitor_i + 1
    IN  /\ StartsWithRunning(status) \/ detections < MaxDetections
        /\ heap' = step.heap
        /\ failure_events' = step.rows
        /\ event_queue' = step.queue
        /\ commands' = commands \o step.commands
        /\ detections' = IF StartsWithRunning(status) THEN detections
                         ELSE detections + 1
        /\ last_step' = [ran |-> TRUE, service |-> service,
                         container_id |-> container_id,
                         probe |-> probe.kind, status |-> status,
                         unhealthy |-> ~StartsWithRunning(status),
                         cached |-> key \in DOMAIN solution_cache,
                         cached_solution |->
                             IF key \in DOMAIN solution_cache
                             THEN solution_cache[key].solution ELSE None,
                         store_failed |-> ~StartsWithRunning(status) /\ ~store_up,
                         looked_up |-> step.looked_up,
                         raised |-> step.raised,
                         commands |-> step.commands,
                         recorded |-> step.recorded,
                         outcome |-> IF step.commands = <<>> \/ step.raised # None
                                     THEN None ELSE Some(cmd_out = "ok")]
        /\ IF step.raised = None \/ PerServiceCatches(TheValue(step.raised))
           THEN monitor_i' = next_i /\ monitor_pc' = "run"
           ELSE IF MonitorLoopCatches(TheValue(step.raised))
           THEN monitor_i' = 0 /\ monitor_pc' = "run"
           ELSE monitor_i' = monitor_i /\ monitor_pc' = "dead"
        /\ UNCHANGED <<learned_patterns, solution_cache, analysis_pc, analysis_event,
                       fitted, last_training, applied, last_scan, timer_vars,
                       system_state, last_call, call_vars, clock, last_record, loops_vars>>

\* the lookup of line 681 on the learning system of the process
Lookup(i) ==
    GetRecoverySolution(solution_cache, learned_patterns, services_to_check[i][1],
                        "container_inactive", services_to_check[i][2])

\* one pass of the for loop with a probe that reports a status
MonitorCheckService ==
    /\ monitor_pc = "run"
    /\ monitor_i \in 1..Len(services_to_check)
    /\ \E probe \in BasicProbes, cmd_out \in CommandOutcomes :
          MonitorPass(probe, Lookup(monitor_i), cmd_out)

\* one pass of the for loop with a probe that fails
MonitorCheckFailedProbe ==
    /\ monitor_pc = "run"
    /\ monitor_i \in 1..Len(services_to_check)
    /\ \E probe \in Probes \ BasicProbes, cmd_out \in CommandOutcomes :
          MonitorPass(probe, Lookup(monitor_i), cmd_out)

\* subprocess.run of the probe (line 601) is called without a timeout: when
\* pvesh never exits, the call never returns
MonitorProbeHangs ==
    /\ monitor_pc = "run"
    /\ monitor_i \in 1..Len(services_to_check)
    /\ monitor_pc' = "blocked"
    /\ UNCHANGED <<store_vars, learner_vars, monitor_i, system_state, commands,
                   last_step, detections, last_call, call_vars, clock, last_record, loops_vars>>

\* time passes on the host
ClockAdvance ==
    /\ \E later \in ClockReadings : later > clock /\ clock' = later
    /\ UNCHANGED <<store_vars, learner_vars, monitor_vars, detections, last_call, call_vars,
                   last_record, loops_vars>>

\* the database file becomes unusable (removed, locked, disk full) ...
StoreFails ==
    /\ store_up
    /\ store_up' = FALSE
    /\ UNCHANGED <<store_vars, learner_vars, monitor_vars, detections, last_call, call_vars,
                   clock, last_record, predictor_vars, trend_vars>>

\* ... and usable again
StoreRecovers ==
    /\ ~store_up
    /\ store_up' = TRUE
    /\ UNCHANGED <<store_vars, learner_vars, monitor_vars, detections, last_call, call_vars,
                   clock, last_record, predictor_vars, trend_vars>>

----------------------------------------------------------------------------
(* Idle timeout of the analysis thread, in seconds of the monotonic clock *)

\* queue.get(timeout=60)
IdleTimeout == 60

\* self.training_interval
TrainingInterval == 3600

\* the waits at which something happens in the model: an event arrives just
\* before the timeout, or the timeout expires
IdleInstants == {IdleTimeout - 1, IdleTimeout}

\* time passes while the thread is blocked in queue.get on an empty queue
Tick ==
    /\ analysis_pc = "get"
    /\ event_queue = <<>>
    /\ \E t \in IdleInstants :
          /\ t > idle
          /\ idle' = t
          /\ scan_age' = IF scan_age + (t - idle) > TrainingInterval
                         THEN TrainingInterval + 1 ELSE scan_age + (t - idle)
    /\ UNCHANGED <<store_vars, solution_cache, event_queue, heap, analysis_pc,
                   analysis_event, fitted, last_training, applied, last_scan,
                   monitor_vars, detections, last_call, call_vars, clock, last_record,
                   loops_vars>>

\* queue.get raises queue.Empty once the thread has waited for the timeout
TimedAnalyzePatterns ==
    /\ idle = IdleTimeout
    /\ AnalyzePatterns

----------------------------------------------------------------------------
(* Anomaly-prediction loop: _prediction_loop and _predict_failures *)

\* time.time() - 3600 in the SELECT of _predict_failures
RecentWindow == 3600

\* columns of the matrix the detector is fit on (the features list of
\* _analyze_patterns) and of the matrix it is asked to score
\* ([memory_usage, load_avg] of _extract_prediction_features)
FitFeatureCount == 5
PredictFeatureCount == 2

\* the text of a memory_usage entry is the table that `free -m` prints: its
\* second line has a number in the third column
FreeTable(text) == text = "free -m"

\* _extract_prediction_features, the try body for one row (lines 459-463):
\* the exception it raises for a stored snapshot, None when it yields
\* [memory_usage, load_avg].  A missing memory_usage is the default '0',
\* which has no second line; a missing load_avg is the default [0]; a value
\* that is no string has no split, a number cannot be subscripted
ExtractionError(state) ==
    IF "memory_usage" \notin DOMAIN state THEN Some("IndexError")
    ELSE IF state.memory_usage.type # "str" THEN Some("AttributeError")
    ELSE IF ~FreeTable(state.memory_usage.items[1]) THEN Some("IndexError")
    ELSE IF "load_avg" \notin DOMAIN state THEN None
    ELSE IF state.load_avg.type = "list"
    THEN IF state.load_avg.items = <<>> THEN Some("IndexError") ELSE None
    ELSE IF state.load_avg.type = "str" THEN Some("ValueError")
    ELSE Some("TypeError")

\* the row is appended to the features
YieldsFeatures(row) == ExtractionError(JsonLoadsState(row.system_state)) = None

\* the extraction of the row raises an exception that line 464 does not catch
ExtractionEscapes(row) ==
    LET e == ExtractionError(JsonLoadsState(row.system_state))
    IN  e # None /\ ~ExtractCatches(TheValue(e))

\* the service names of the model in sorted order: groupby yields its groups
\* in the order of their keys
SortedServices == <<"mcp", "ollama", "qdrant">>

\* a detector that scores rows before it has been fit
DetectorPredict_UntrainedScores(is_fitted, columns, flagged) ==
    IF is_fitted /\ columns # FitFeatureCount
    THEN [raised |-> Some("ValueError"), outlier |-> FALSE]
    ELSE [raised |-> None, outlier |-> flagged]

\* self.anomaly_detector.predict(features) and `-1 in predictions`:
\* IsolationForest.predict raises NotFittedError before fit, and ValueError
\* for a matrix whose number of columns differs from that of the matrix it
\* was fit on; otherwise it flags outliers or not
DetectorPredict(is_fitted, columns, flagged) ==
    IF ~is_fitted THEN [raised |-> Some("NotFittedError"), outlier |-> FALSE]
    ELSE IF columns # FitFeatureCount
    THEN [raised |-> Some("ValueError"), outlier |-> FALSE]
    ELSE [raised |-> None, outlier |-> flagged]

RECURSIVE PredictGroups(_, _, _, _, _, _)
\* the for loop of _predict_failures over the groups, from the k-th service
\* name on, for feature rows of the given number of columns: the rows whose
\* INSERT it has executed, the rows that are stored, and the exception that
\* ended it
PredictGroups(recent, k, is_fitted, columns, flagged, inserted) ==
    IF k > Len(SortedServices)
    THEN [raised |-> None, inserted |-> inserted, executed |-> inserted]
    ELSE LET group == SelectSeq(recent, LAMBDA r : r.service = SortedServices[k])
             escaping == {i \in 1..Len(group) : ExtractionEscapes(group[i])}
             features == SelectSeq(group, YieldsFeatures)
             scored == DetectorPredict(is_fitted, columns, flagged)
         IN  IF escaping # {}
             THEN [raised |-> ExtractionError(JsonLoadsState(
                                  group[CHOOSE i \in escaping :
                                            \A j \in escaping : j <= i].system_state)),
                   inserted |-> <<>>, executed |-> inserted]
             ELSE IF features = <<>>
             THEN PredictGroups(recent, k + 1, is_fitted, columns, flagged, inserted)
             ELSE IF scored.raised # None
             THEN [raised |-> scored.raised, inserted |-> <<>>, executed |-> inserted]
             ELSE PredictGroups(recent, k + 1, is_fitted, columns, flagged,
                                IF scored.outlier
                                THEN Append(inserted,
                                            [service |-> group[1].service,
                                             container_id |-> group[1].container_id,
                                             predicted_error_type |-> "predicted_failure",
                                             was_correct |-> None])
                                ELSE inserted)

\* _predict_failures: what it raises and the rows it inserts, given whether
\* the detector scores the groups as outliers.  The rows are committed at
\* the end (line 445), so a cycle that raises leaves the connection without
\* a commit and stores none of the rows it has executed an INSERT for
PredictFailures(rows, now, is_fitted, up, columns, flagged) ==
    LET recent == SelectSeq(rows, LAMBDA r : r.timestamp > now - RecentWindow)
    IN  IF ~up THEN [raised |-> StoreRaises(up), inserted |-> <<>>, executed |-> <<>>]
        ELSE PredictGroups(recent, 1, is_fitted, columns, flagged, <<>>)

\* one iteration of _prediction_loop up to its time.sleep(60), for feature
\* rows of the given number of columns
PredictionRun(columns) ==
    /\ prediction.pc = "predict"
    /\ \E flagged \in BOOLEAN :
          LET r == PredictFailures(failure_events, clock, fitted, store_up,
                                   columns, flagged)
          IN  /\ failure_predictions' = failure_predictions \o r.inserted
              /\ prediction' =
                     [pc |-> IF r.raised = None
                                \/ PredictionLoopCatches(TheValue(r.raised))
                             THEN "sleep" ELSE "dead",
                      raised |-> r.raised,
                      executed |-> Len(r.executed)]
    /\ UNCHANGED <<store_vars, learner_vars, monitor_vars, detections, last_call, call_vars,
                   clock, last_record, store_up, trend_vars>>

\* the cycle of the program: the feature rows have the two columns of
\* _extract_prediction_features
PredictionCycle == PredictionRun(PredictFeatureCount)

\* time.sleep(60) returns
PredictionWake ==
    /\ prediction.pc = "sleep"
    /\ prediction' = [prediction EXCEPT !.pc = "predict"]
    /\ UNCHANGED <<store_vars, learner_vars, monitor_vars, detections, last_call, call_vars,
                   clock, last_record, store_up, failure_predictions, trend_vars>>

----------------------------------------------------------------------------
(* Trend-prediction loop: main of predict_patterns.py *)

\* NeuralPredictor.pattern_window
pattern_window == 10

\* NeuralPredictor.evolution_threshold, 0.85, in hundredths like the scalars
\* of a state analysis
evolution_threshold == 85

\* pattern['confidence'] > self.evolution_threshold, the confidence being a
\* fraction
Strong(pattern) == FracGT(pattern.confidence, evolution_threshold, 100)

\* a classification that looks at the resource pressure before the health
DetermineEmergenceType_PressureFirst(state_analysis, patterns) ==
    IF (\E i \in 1..Len(patterns) : Strong(patterns[i]))
       /\ state_analysis.resource_pressure > 80
    THEN "resource_optimization"
    ELSE IF state_analysis.overall_health < 50 THEN "degradation"
    ELSE IF \E i \in 1..Len(patterns) : Strong(patterns[i])
    THEN IF state_analysis.flow_health < 70 THEN "flow_enhancement"
         ELSE "pattern_evolution"
    ELSE "stable_operation"

\* _determine_emergence_type
DetermineEmergenceType(state_analysis, patterns) ==
    IF state_analysis.overall_health < 50 THEN "degradation"
    ELSE IF \E i \in 1..Len(patterns) : Strong(patterns[i])
    THEN IF state_analysis.resource_pressure > 80 THEN "resource_optimization"
         ELSE IF state_analysis.flow_health < 70 THEN "flow_enhancement"
         ELSE "pattern_evolution"
    ELSE "stable_operation"

\* state analyses on both sides of each threshold of the classification
StateAnalyses ==
    [overall_health : {30, 49, 50, 90}, resource_pressure : {80, 81},
     flow_health : {69, 70}]

\* what detect_patterns returns: nothing for a short window, else the three
\* sub-patterns, here with confidences on both sides of the threshold
SubPatternLists ==
    {<<>>} \cup
    {<<[type |-> "resource_evolution", confidence |-> a],
       [type |-> "health_evolution", confidence |-> b],
       [type |-> "flow_evolution", confidence |-> c]>> :
        a \in {<<85, 100>>, <<86, 100>>}, b \in {<<85, 100>>, <<86, 100>>},
        c \in {<<85, 100>>, <<86, 100>>}}

\* predict_evolution calls _determine_emergence_type (line 173)
ClassifyEmergence ==
    /\ \E state_analysis \in StateAnalyses, patterns \in SubPatternLists :
          last_emergence' =
              [called |-> TRUE, state_analysis |-> state_analysis,
               patterns |-> patterns,
               value |-> DetermineEmergenceType(state_analysis, patterns)]
    /\ UNCHANGED <<store_vars, learner_vars, monitor_vars, detections, last_call,
                   clock, last_record, loops_vars, last_update, main_vars>>

\* the states listed in summary.json, by what the loop reads of them here
TrendSamples == {[pattern_type |-> Some("neural")],
                 [pattern_type |-> Some("flow")],
                 [pattern_type |-> None]}

\* summary.json: absent, no JSON, or a mapping with its patterns in file order
SummaryFiles ==
    {[kind |-> "missing", patterns |-> <<>>], [kind |-> "invalid", patterns |-> <<>>]}
    \cup {[kind |-> "ok", patterns |-> p] :
             p \in {<<>>} \cup {<<a>> : a \in TrendSamples}
                   \cup {<<a, b>> : a \in TrendSamples, b \in TrendSamples}}

RECURSIVE SumSeq(_)
SumSeq(seq) == IF seq = <<>> THEN 0 ELSE Head(seq) + SumSeq(Tail(seq))

\* a regression against the positions counted from the newest sample
AnalyzeTrend_Mirrored(values) ==
    LET n == Len(values)
        sx == SumSeq([i \in 1..n |-> n - i])
        sy == SumSeq(values)
        sxy == SumSeq([i \in 1..n |-> (n - i) * values[i]])
        sxx == SumSeq([i \in 1..n |-> (n - i) * (n - i)])
    IN  IF n < 2 \/ n * sxx - sx * sx = 0 THEN <<0, 1>>
        ELSE <<n * sxy - sx * sy, n * sxx - sx * sx>>

\* _analyze_trend: the least-squares slope of the values against 0..n-1, as
\* a fraction.  The code divides sum((x - x_mean)(y - y_mean)) by
\* sum((x - x_mean)^2); both are multiplied by n here, which keeps integers
AnalyzeTrend(values) ==
    LET n == Len(values)
        sx == SumSeq([i \in 1..n |-> i - 1])
        sy == SumSeq(values)
        sxy == SumSeq([i \in 1..n |-> (i - 1) * values[i]])
        sxx == SumSeq([i \in 1..n |-> (i - 1) * (i - 1)])
    IN  IF n < 2 \/ n * sxx - sx * sx = 0 THEN <<0, 1>>
        ELSE <<n * sxy - sx * sy, n * sxx - sx * sx>>

\* entry.get('neural_resources', {}).get('efficiency', 0)
Efficiency(entry) == DictGet(DictGet(entry, "neural_resources", <<>>), "efficiency", 0)

\* entry.get('neural_health', {}).get('status') == 'optimal'
HealthOptimal(entry) ==
    /\ "status" \in DOMAIN DictGet(entry, "neural_health", <<>>)
    /\ entry.neural_health.status = "optimal"

\* entry.get('flow_state', {}).get('connected', False)
FlowConnected(entry) == DictGet(DictGet(entry, "flow_state", <<>>), "connected", FALSE)

\* abs() of a fraction with a positive denominator
FracAbs(f) == <<IF f[1] < 0 THEN 0 - f[1] ELSE f[1], f[2]>>

\* a detection that does not wait for a full window
DetectPatterns_AnyLength(history) ==
    LET resource_trend ==
            AnalyzeTrend([i \in 1..Len(history) |-> Efficiency(history[i])])
    IN  <<[type |-> "resource_evolution", confidence |-> FracAbs(resource_trend),
           direction |-> IF resource_trend[1] > 0 THEN "increasing"
                         ELSE "decreasing"],
          [type |-> "health_evolution", confidence |-> <<0, 1>>,
           direction |-> "degrading"],
          [type |-> "flow_evolution", confidence |-> <<0, 1>>,
           direction |-> "weakening"]>>

\* detect_patterns: nothing for fewer than pattern_window samples, else the
\* three sub-patterns of the last pattern_window samples.  The health series
\* is 1.0 / 0.5, taken here as 2 / 1 with the slope's denominator doubled
DetectPatterns(history) ==
    IF Len(history) < pattern_window THEN <<>>
    ELSE LET window == SubSeq(history, Len(history) - pattern_window + 1, Len(history))
             resource_trend ==
                 AnalyzeTrend([i \in 1..Len(window) |-> Efficiency(window[i])])
             doubled ==
                 AnalyzeTrend([i \in 1..Len(window) |->
                                  IF HealthOptimal(window[i]) THEN 2 ELSE 1])
             health_trend == <<doubled[1], 2 * doubled[2]>>
             flow_trend ==
                 AnalyzeTrend([i \in 1..Len(window) |->
                                  IF FlowConnected(window[i]) THEN 1 ELSE 0])
         IN  <<[type |-> "resource_evolution", confidence |-> FracAbs(resource_trend),
                direction |-> IF resource_trend[1] > 0 THEN "increasing"
                              ELSE "decreasing"],
               [type |-> "health_evolution", confidence |-> FracAbs(health_trend),
                direction |-> IF health_trend[1] > 0 THEN "improving"
                              ELSE "degrading"],
               [type |-> "flow_evolution", confidence |-> FracAbs(flow_trend),
                direction |-> IF flow_trend[1] > 0 THEN "strengthening"
                              ELSE "weakening"]>>

\* math.exp(-x / 100) for a whole x from 1 to 460, in hundredths rounded
\* down; it is below 0.01 from 461 on
ExpTable ==
    <<99, 98, 97, 96, 95, 94, 93, 92, 91, 90, 89, 88, 87, 86, 86, 85, 84,
      83, 82, 81, 81, 80, 79, 78, 77, 77, 76, 75, 74, 74, 73, 72, 71, 71,
      70, 69, 69, 68, 67, 67, 66, 65, 65, 64, 63, 63, 62, 61, 61, 60, 60,
      59, 58, 58, 57, 57, 56, 55, 55, 54, 54, 53, 53, 52, 52, 51, 51, 50,
      50, 49, 49, 48, 48, 47, 47, 46, 46, 45, 45, 44, 44, 44, 43, 43, 42,
      42, 41, 41, 41, 40, 40, 39, 39, 39, 38, 38, 37, 37, 37, 36, 36, 36,
      35, 35, 34, 34, 34, 33, 33, 33, 32, 32, 32, 31, 31, 31, 31, 30, 30,
      30, 29, 29, 29, 28, 28, 28, 28, 27, 27, 27, 26, 26, 26, 26, 25, 25,
      25, 25, 24, 24, 24, 24, 23, 23, 23, 23, 22, 22, 22, 22, 22, 21, 21,
      21, 21, 21, 20, 20, 20, 20, 19, 19, 19, 19, 19, 19, 18, 18, 18, 18,
      18, 17, 17, 17, 17, 17, 17, 16, 16, 16, 16, 16, 16, 15, 15, 15, 15,
      15, 15, 14, 14, 14, 14, 14, 14, 14, 13, 13, 13, 13, 13, 13, 13, 13,
      12, 12, 12, 12, 12, 12, 12, 12, 11, 11, 11, 11, 11, 11, 11, 11, 10,
      10, 10, 10, 10, 10, 10, 10, 10, 10, 9, 9, 9, 9, 9, 9, 9, 9, 9, 9, 8,
      8, 8, 8, 8, 8, 8, 8, 8, 8, 8, 8, 7, 7, 7, 7, 7, 7, 7, 7, 7, 7, 7, 7,
      7, 6, 6, 6, 6, 6, 6, 6, 6, 6, 6, 6, 6, 6, 6, 6, 6, 5, 5, 5, 5, 5, 5,
      5, 5, 5, 5, 5, 5, 5, 5, 5, 5, 5, 5, 4, 4, 4, 4, 4, 4, 4, 4, 4, 4, 4,
      4, 4, 4, 4, 4, 4, 4, 4, 4, 4, 4, 3, 3, 3, 3, 3, 3, 3, 3, 3, 3, 3, 3,
      3, 3, 3, 3, 3, 3, 3, 3, 3, 3, 3, 3, 3, 3, 3, 3, 3, 2, 2, 2, 2, 2, 2,
      2, 2, 2, 2, 2, 2, 2, 2, 2, 2, 2, 2, 2, 2, 2, 2, 2, 2, 2, 2, 2, 2, 2,
      2, 2, 2, 2, 2, 2, 2, 2, 2, 2, 2, 2, 1, 1, 1, 1, 1, 1, 1, 1, 1, 1, 1,
      1, 1, 1, 1, 1, 1, 1, 1, 1, 1, 1, 1, 1, 1, 1, 1, 1, 1, 1, 1, 1, 1, 1,
      1, 1, 1, 1, 1, 1, 1, 1, 1, 1, 1, 1, 1, 1, 1, 1, 1, 1, 1, 1, 1, 1, 1,
      1, 1, 1, 1, 1, 1, 1, 1, 1, 1, 1, 1>>

\* math.exp(-x / 100) for a whole x > 0, in hundredths rounded down.  The
\* rounding keeps the comparisons of the classification exact: the value is
\* below 0.7 (or 0.2) exactly when its hundredths are below 70 (or 20)
ExpNeg(x) == IF x <= Len(ExpTable) THEN ExpTable[x] ELSE 0

\* flow_state.get('latency', 0) as the JSON value of summary.json: a number,
\* a text or null
Latency(sample) ==
    DictGet(DictGet(sample, "flow_state", <<>>), "latency",
            [type |-> "int", items |-> <<0>>])

\* float(flow_state.get('latency', 0) or 0) (line 71): null counts as 0, and
\* a text that is no number raises ValueError
AnalysisError(sample) ==
    IF Latency(sample).type = "str" THEN Some("ValueError") ELSE None

\* resource_pressure (lines 67-68), in hundredths: the efficiency is divided
\* by 100 and 1 - (math.exp(-e) if e > 0 else 0) is taken
ResourcePressure(efficiency) ==
    100 - (IF efficiency > 0 THEN ExpNeg(efficiency) ELSE 0)

\* analyze_pattern_state for a sample whose latency is a number or null, in
\* hundredths; overall_health is the mean of the three, rounded down
AnalyzePatternState(sample) ==
    LET healthy == IF HealthOptimal(sample) THEN 100 ELSE 70
        stability == IF FlowConnected(sample) THEN healthy ELSE healthy \div 2
        resource_pressure == ResourcePressure(Efficiency(sample))
        flow_latency == IF Latency(sample).type = "int"
                        THEN Latency(sample).items[1] ELSE 0
        flow_health == IF flow_latency > 0 THEN ExpNeg(flow_latency) ELSE 100
    IN  [stability |-> stability,
         resource_pressure |-> resource_pressure,
         flow_health |-> flow_health,
         overall_health |-> (stability + flow_health + (100 - resource_pressure)) \div 3]

\* a confidence lowered for every sub-pattern, strong or not
EvolutionConfidence_EveryPattern(state_analysis, patterns) ==
    <<state_analysis.overall_health * 9 ^ Len(patterns), 100 * 10 ^ Len(patterns)>>

RECURSIVE ReduceConfidence(_, _)
\* the for loop of lines 163-165 over the sub-patterns: the confidence, a
\* fraction, is multiplied by 0.9 for each strong one
ReduceConfidence(confidence, patterns) ==
    IF patterns = <<>> THEN confidence
    ELSE ReduceConfidence(IF Strong(Head(patterns))
                          THEN <<confidence[1] * 9, confidence[2] * 10>>
                          ELSE confidence,
                          Tail(patterns))

\* evolution_confidence of predict_evolution (lines 162-165), a fraction
EvolutionConfidence(state_analysis, patterns) ==
    ReduceConfidence(<<state_analysis.overall_health, 100>>, patterns)

\* predict_evolution after the window has been updated (lines 156-186): the
\* prediction it returns, by the fields the model keeps
PredictEvolution(t, sample, window) ==
    LET state_analysis == AnalyzePatternState(sample)
        emerging_patterns == DetectPatterns(window)
    IN  [pattern_type |-> t,
         evolution_confidence |-> EvolutionConfidence(state_analysis, emerging_patterns),
         emergence_type |-> DetermineEmergenceType(state_analysis, emerging_patterns),
         pattern_signature |-> emerging_patterns,
         neural_state |-> state_analysis]

\* a window that is full keeps its samples and drops the new one
WindowAppend_EvictsNewest(memory, t, sample) ==
    LET w == Append(DictGet(memory, t, <<>>), sample)
        kept == IF Len(w) > pattern_window THEN SubSeq(w, 1, pattern_window) ELSE w
    IN  [k \in DOMAIN memory \cup {t} |-> IF k = t THEN kept ELSE memory[k]]

\* predict_evolution: append to the rolling window, pop(0) beyond pattern_window
WindowAppend(memory, t, sample) ==
    LET w == Append(DictGet(memory, t, <<>>), sample)
        kept == IF Len(w) > pattern_window THEN Tail(w) ELSE w
    IN  [k \in DOMAIN memory \cup {t} |-> IF k = t THEN kept ELSE memory[k]]

\* a body that predicts and stores the prediction before it stores the state
TrendStep_PredictsFirst(t, sample, memory, history, predictions, up, up_after) ==
    LET appended == WindowAppend(memory, t, sample)
        predicted == Append(predictions, PredictEvolution(t, sample, appended[t]))
    IN  IF AnalysisError(sample) # None
        THEN [memory |-> appended, history |-> history, predictions |-> predictions,
              raised |-> AnalysisError(sample)]
        ELSE IF ~up
        THEN [memory |-> appended, history |-> history, predictions |-> predictions,
              raised |-> StoreRaises(up)]
        ELSE IF ~up_after
        THEN [memory |-> appended, history |-> history, predictions |-> predicted,
              raised |-> StoreRaises(up_after)]
        ELSE [memory |-> appended,
              history |-> Append(history, [pattern_type |-> t, pattern_state |-> sample]),
              predictions |-> predicted, raised |-> None]

\* the body of the for loop of main for one state with a pattern type (lines
\* 271-275): store_pattern_state, predict_evolution, store_prediction, given
\* whether the store can be written at the first and at the second of them.
\* predict_evolution appends the state to the window (line 151) before it
\* analyzes it (line 156), so a state whose analysis raises stays in the
\* window and in pattern_history without a prediction
TrendStep(t, sample, memory, history, predictions, up, up_after) ==
    LET appended == WindowAppend(memory, t, sample)
        stored == Append(history, [pattern_type |-> t, pattern_state |-> sample])
    IN  IF ~up
        THEN [memory |-> memory, history |-> history, predictions |-> predictions,
              raised |-> StoreRaises(up)]
        ELSE IF AnalysisError(sample) # None
        THEN [memory |-> appended, history |-> stored, predictions |-> predictions,
              raised |-> AnalysisError(sample)]
        ELSE IF ~up_after
        THEN [memory |-> appended, history |-> stored, predictions |-> predictions,
              raised |-> StoreRaises(up_after)]
        ELSE [memory |-> appended, history |-> stored,
              predictions |-> Append(predictions,
                                     PredictEvolution(t, sample, appended[t])),
              raised |-> None]

RECURSIVE TrendBody(_, _, _, _, _, _, _)
\* the for loop of main over the patterns of the file, from the i-th on; an
\* exception ends it
TrendBody(patterns, i, memory, history, predictions, up, up_after) ==
    IF i > Len(patterns)
    THEN [memory |-> memory, history |-> history, predictions |-> predictions,
          raised |-> None]
    ELSE IF patterns[i].pattern_type = None
    THEN TrendBody(patterns, i + 1, memory, history, predictions, up, up_after)
    ELSE LET step == TrendStep(TheValue(patterns[i].pattern_type), patterns[i],
                               memory, history, predictions, up, up_after)
         IN  IF step.raised # None THEN step
             ELSE TrendBody(patterns, i + 1, step.memory, step.history,
                            step.predictions, up, up_after)

\* one iteration of the while loop of main up to its time.sleep, given what
\* summary.json holds and whether the store can be written when
\* store_prediction is called
TrendRun(file, up_after) ==
    /\ trend.pc = "cycle"
    /\ LET opened == IF file.kind = "missing" THEN Some("FileNotFoundError")
                     ELSE IF file.kind = "invalid" THEN Some("JSONDecodeError")
                     ELSE None
           body == IF opened = None
                   THEN TrendBody(file.patterns, 1, pattern_memory,
                                  pattern_history, pattern_predictions, store_up,
                                  up_after)
                   ELSE [memory |-> pattern_memory, history |-> pattern_history,
                         predictions |-> pattern_predictions, raised |-> opened]
       IN  /\ pattern_memory' = body.memory
           /\ pattern_history' = body.history
           /\ pattern_predictions' = body.predictions
           /\ trend' = [pc |-> IF body.raised = None
                                  \/ TrendLoopCatches(TheValue(body.raised))
                               THEN "sleep" ELSE "dead",
                        raised |-> body.raised]
    /\ UNCHANGED <<store_vars, learner_vars, monitor_vars, detections, last_call, call_vars,
                   clock, last_record, store_up, predictor_vars>>

\* an iteration during which the store stays as it is
TrendIteration(file) == TrendRun(file, store_up)

TrendCycle ==
    \E file \in SummaryFiles :
        /\ Len(pattern_history) + Len(file.patterns) <= MaxTrendRows
        /\ TrendIteration(file)

\* time.sleep(60), or time.sleep(10) after an error, returns
TrendWake ==
    /\ trend.pc = "sleep"
    /\ trend' = [trend EXCEPT !.pc = "cycle"]
    /\ UNCHANGED <<store_vars, learner_vars, monitor_vars, detections, last_call, call_vars,
                   clock, last_record, store_up, predictor_vars, pattern_memory,
                   pattern_history, pattern_predictions>>

----------------------------------------------------------------------------
(* API server: check_rate_limit and retry_request of main.py *)

\* seconds a client's window lasts, and the requests it admits
RATE_LIMIT_DURATION == 60

RATE_LIMIT_REQUESTS == 30

\* `current_time - rate_limit_data[ip]["start_time"] > RATE_LIMIT_DURATION`
Expired(entry, current_time) == current_time - entry.start_time > RATE_LIMIT_DURATION

\* the clean-up loop at the head of check_rate_limit: every client's expired
\* entry is deleted
CleanUp(data, current_time) ==
    [ip \in {k \in DOMAIN data : ~Expired(data[k], current_time)} |-> data[ip]]

\* rate_limit_data[client_ip] = entry
SetEntry(data, client_ip, entry) ==
    [ip \in DOMAIN data \cup {client_ip} |-> IF ip = client_ip THEN entry ELSE data[ip]]

\* check_rate_limit counting the request that reaches the limit as over it
CheckRateLimit_RejectsAtLimit(data, client_ip, current_time) ==
    LET cleaned == CleanUp(data, current_time)
        fresh == [count |-> 1, start_time |-> current_time]
    IN  IF client_ip \notin DOMAIN cleaned \/ Expired(cleaned[client_ip], current_time)
        THEN [data |-> SetEntry(cleaned, client_ip, fresh), raised |-> None]
        ELSE LET counted == [cleaned[client_ip] EXCEPT !.count = @ + 1]
             IN  [data |-> SetEntry(cleaned, client_ip, counted),
                  raised |-> IF counted.count >= RATE_LIMIT_REQUESTS
                             THEN Some(429) ELSE None]

\* check_rate_limit(request) at current_time = time.time() for the client
\* address request.client.host: the dictionary it leaves and the status of the
\* HTTPException it raises, None when it returns.  The coroutine holds no
\* await, so the event loop runs it in one piece.
CheckRateLimit(data, client_ip, current_time) ==
    LET cleaned == CleanUp(data, current_time)
        fresh == [count |-> 1, start_time |-> current_time]
    IN  IF client_ip \notin DOMAIN cleaned
        THEN [data |-> SetEntry(cleaned, client_ip, fresh), raised |-> None]
        ELSE IF Expired(cleaned[client_ip], current_time)
             THEN [data |-> SetEntry(cleaned, client_ip, fresh), raised |-> None]
             ELSE LET counted == [cleaned[client_ip] EXCEPT !.count = @ + 1]
                  IN  [data |-> SetEntry(cleaned, client_ip, counted),
                       raised |-> IF counted.count > RATE_LIMIT_REQUESTS
                                  THEN Some(429) ELSE None]

\* the window a request of client_ip at current_time falls in, told by the
\* clock alone: the client's open window if its first request is at most
\* RATE_LIMIT_DURATION seconds old, a new one otherwise; with the requests seen
\* and passed in it, its number, and the client's rejections so far
WindowAfter(windows, client_ip, current_time, raised) ==
    LET known == client_ip \in DOMAIN windows
        open == known /\ current_time - windows[client_ip].first <= RATE_LIMIT_DURATION
        w == IF open THEN windows[client_ip]
             ELSE [first |-> current_time, seen |-> 0, passed |-> 0,
                   number |-> (IF known THEN windows[client_ip].number ELSE 0) + 1,
                   rejected |-> IF known THEN windows[client_ip].rejected ELSE 0]
    IN  [w EXCEPT !.seen = @ + 1,
                  !.passed = @ + (IF raised = None THEN 1 ELSE 0),
                  !.rejected = @ + (IF raised = None THEN 0 ELSE 1)]

\* what no operation of the API server touches
engine_vars == <<store_vars, learner_vars, monitor_vars, last_call, detections, last_record, loops_vars, last_update, last_emergence>>

\* one request of client_ip reaches check_rate_limit
Request(client_ip) ==
    LET r == CheckRateLimit(rate_limit_data, client_ip, clock)
    IN  /\ r.data[client_ip].count <= MaxRequestCount
        /\ rate_limit_data' = r.data
        /\ last_request' = [called |-> TRUE, client_ip |-> client_ip,
                            current_time |-> clock, raised |-> r.raised]
        /\ rate_window' = SetEntry(rate_window, client_ip,
                                   WindowAfter(rate_window, client_ip, clock, r.raised))
        /\ UNCHANGED <<engine_vars, clock, retry>>

\* calls of the wrapped function in one retry_request, and the base delay
MAX_RETRIES == 3

RETRY_DELAY == 1

\* `except Exception as e` of retry_request (line 78)
RetryCatches(exc) == ExceptException(exc)

\* a retry_request that waits the same time after every failure
RetryDelay_Constant(attempt) == RETRY_DELAY

\* the argument of asyncio.sleep after the failure of attempt 0, 1, ...
RetryDelay(attempt) == RETRY_DELAY * (attempt + 1)

\* what one call of the wrapped function can do: return a value or raise
CallResults ==
    {[ok |-> TRUE, value |-> v, raised |-> None] : v \in {"answer", "embedding"}}
    \cup {[ok |-> FALSE, value |-> "", raised |-> Some(e)] :
             e \in {"HTTPStatusError", "TimeoutException", "CancelledError"}}

\* retry_request(func) is called: the for loop starts at attempt 0
RetryStart ==
    /\ retry.pc \in {"idle", "returned", "raised"}
    /\ retry.runs < MaxRetryRuns
    /\ retry' = [pc |-> "call", attempt |-> 0, calls |-> <<>>, waits |-> <<>>,
                 outcome |-> None, runs |-> retry.runs + 1]
    /\ UNCHANGED <<engine_vars, clock, rate_limit_data, rate_window, last_request>>

\* `return await func(*args, **kwargs)` of the current attempt, with what
\* follows its exception: the exception leaves retry_request when the clause
\* does not catch it or when the attempt was the last, otherwise the sleep starts
RetryCall ==
    /\ retry.pc = "call"
    /\ \E result \in CallResults :
          LET calls == Append(retry.calls, result)
          IN  retry' =
                 IF result.ok
                 THEN [retry EXCEPT !.pc = "returned", !.calls = calls,
                                    !.outcome = Some(result)]
                 ELSE IF ~RetryCatches(TheValue(result.raised))
                         \/ retry.attempt = MAX_RETRIES - 1
                      THEN [retry EXCEPT !.pc = "raised", !.calls = calls,
                                         !.outcome = Some(result)]
                      ELSE [retry EXCEPT !.pc = "sleep", !.calls = calls,
                                         !.waits = Append(@, RetryDelay(retry.attempt))]
    /\ UNCHANGED <<engine_vars, clock, rate_limit_data, rate_window, last_request>>

\* asyncio.sleep returns: the loop goes on with the next attempt
RetrySleepDone ==
    /\ retry.pc = "sleep"
    /\ retry' = [retry EXCEPT !.pc = "call", !.attempt = @ + 1]
    /\ UNCHANGED <<engine_vars, clock, rate_limit_data, rate_window, last_request>>

\* the task is cancelled during asyncio.sleep, which stands inside the except
\* clause: CancelledError leaves retry_request
RetrySleepCancelled ==
    /\ retry.pc = "sleep"
    /\ retry' = [retry EXCEPT !.pc = "raised",
                              !.outcome = Some([ok |-> FALSE, value |-> "",
                                                raised |-> Some("CancelledError")])]
    /\ UNCHANGED <<engine_vars, clock, rate_limit_data, rate_window, last_request>>

----------------------------------------------------------------------------
(* Specifications *)

\* a client records a failure event
ApiRecordFailure ==
    /\ Len(heap) - detections < MaxApiEvents
    /\ \E ev \in ApiEvents : RecordFailure(ev)

\* a client asks for a recovery solution
ApiGetRecoverySolution ==
    \E t \in ApiTriples : CallGetRecoverySolution(t[1], t[2], t[3])

Next ==
    \/ ApiRecordFailure
    \/ ApiGetRecoverySolution
    \/ AnalysisGet
    \/ AnalyzeEvent
    \/ AnalyzePatterns
    \/ MonitorCollect
    \/ MonitorCheckService
    \/ ClockAdvance

Spec == Init /\ [][Next]_vars

\* the learner alone, driven by a client
LearnerRecordFailure ==
    /\ Len(heap) < MaxLearnerEvents
    /\ \E ev \in LearnerEvents : RecordFailure(ev)

LearnerNext ==
    \/ LearnerRecordFailure
    \/ ApiGetRecoverySolution
    \/ AnalysisGet
    \/ AnalyzeEvent
    \/ AnalyzePatterns
    \/ ClockAdvance

LearnerSpec == Init /\ [][LearnerNext]_vars

\* the end-to-end scenario of one pattern key
ScenarioRecordFailure ==
    /\ Len(heap) < MaxScenarioEvents
    /\ \E ev \in ScenarioEvents :
          /\ Truthy(ev.recovery_success)
             \/ Cardinality({i \in 1..Len(heap) : ~Truthy(heap[i].recovery_success)})
                    < MaxScenarioFailures
          /\ RecordFailure(ev)

ScenarioGetRecoverySolution ==
    CallGetRecoverySolution("ollama", "container_inactive", "200")

ScenarioNext ==
    \/ ScenarioRecordFailure
    \/ ScenarioGetRecoverySolution
    \/ AnalysisGet
    \/ AnalyzeEvent
    \/ AnalyzePatterns
    \/ ClockAdvance

ScenarioSpec == Init /\ [][ScenarioNext]_vars

\* events whose fields hold the key's separator
KeyRecordFailure ==
    /\ Len(heap) < MaxKeyEvents
    /\ \E ev \in KeyEvents : RecordFailure(ev)

KeyNext ==
    \/ KeyRecordFailure
    \/ AnalysisGet
    \/ AnalyzeEvent
    \/ AnalyzePatterns
    \/ ClockAdvance

KeySpec == Init /\ [][KeyNext]_vars

\* the orchestrator and the analysis thread of one process, with every kind
\* of probe result and a store that works
MonitorNext ==
    \/ MonitorCollect
    \/ MonitorCheckService
    \/ MonitorCheckFailedProbe
    \/ AnalysisGet
    \/ AnalyzeEvent
    \/ AnalyzePatterns
    \/ ClockAdvance

MonitorSpec == Init /\ [][MonitorNext]_vars

\* what get_recovery_solution answers by its signature, Optional[Dict]: none,
\* or a mapping with the cached solution
LookupAnswers ==
    {[raised |-> None, value |-> None],
     [raised |-> None,
      value |-> Some([solution |-> Some("restart cmd"), confidence |-> <<9, 10>>,
                      predicted_success_rate |-> <<1, 2>>])]}

\* one pass of the for loop in which the lookup of line 681 answers
MonitorCheckAnswered ==
    /\ monitor_pc = "run"
    /\ monitor_i \in 1..Len(services_to_check)
    /\ \E probe \in BasicProbes, r \in LookupAnswers, cmd_out \in CommandOutcomes :
          MonitorPass(probe, r, cmd_out)

\* the for body of the orchestrator as it is written, lines 682-729 included:
\* in the process itself the lookup raises (NamesInScope) and these lines
\* never run, so this specification describes the orchestrator with a lookup
\* that answers, not a run of the program as it stands
AnsweredLookupNext ==
    \/ MonitorCollect
    \/ MonitorCheckAnswered
    \/ AnalysisGet
    \/ AnalyzeEvent
    \/ AnalyzePatterns
    \/ ClockAdvance

AnsweredLookupSpec == Init /\ [][AnsweredLookupNext]_vars

\* the same for body taken in two steps, so that the analysis thread may run
\* while the recovery command does.  First step: a probe that reports a
\* stopped container, record_failure(event) (line 678) and a lookup that
\* answers a solution, up to the call of subprocess.run (line 701)
MonitorRecordDetection ==
    /\ monitor_pc = "run"
    /\ monitor_i \in 1..Len(services_to_check)
    /\ detections < MaxDetections
    /\ store_up
    /\ LET service == services_to_check[monitor_i][1]
           container_id == services_to_check[monitor_i][2]
           key == PatternKey(service, "container_inactive", container_id)
           step == ServiceStep([raised |-> None, value |-> None], service,
                               container_id, "stopped", clock, "ok", store_up)
       IN  /\ heap' = step.heap
           /\ failure_events' = step.rows
           /\ event_queue' = step.queue
           /\ last_step' = [ran |-> TRUE, service |-> service,
                            container_id |-> container_id,
                            probe |-> "object", status |-> "stopped",
                            unhealthy |-> TRUE,
                            cached |-> key \in DOMAIN solution_cache,
                            cached_solution |->
                                IF key \in DOMAIN solution_cache
                                THEN solution_cache[key].solution ELSE None,
                            store_failed |-> FALSE, looked_up |-> TRUE,
                            raised |-> None, commands |-> <<>>,
                            recorded |-> step.recorded, outcome |-> None]
    /\ detections' = detections + 1
    /\ monitor_pc' = "recover"
    /\ UNCHANGED <<learned_patterns, solution_cache, analysis_pc, analysis_event,
                   fitted, last_training, applied, last_scan, timer_vars,
                   monitor_i, system_state, commands, last_call, call_vars, clock,
                   last_record, loops_vars>>

\* second step: the recovery command ends; on exit 0 or a non-zero code the
\* recovery fields are assigned on the same event object (lines 715-717) and
\* record_failure is called with it again (line 718); a command that cannot
\* start raises and leaves the pass (line 731)
MonitorRecover ==
    /\ monitor_pc = "recover"
    /\ \E r \in LookupAnswers, cmd_out \in CommandOutcomes :
          /\ r.value # None
          /\ LET ref == Len(heap)
                 container_id == services_to_check[monitor_i][2]
                 cmd == IF InDict("restart", TheValue(r.value))
                        THEN RecoveryCommand("restart", container_id)
                        ELSE RecoveryCommand("start", container_id)
                 event2 == [heap[ref] EXCEPT !.recovery_attempt = Some(cmd),
                                             !.recovery_success = Some(cmd_out = "ok"),
                                             !.recovery_time = Some(1)]
             IN  /\ commands' = Append(commands, cmd)
                 /\ IF cmd_out = "missing"
                    THEN /\ last_step' = [last_step EXCEPT
                                             !.commands = <<cmd>>,
                                             !.raised = Some("FileNotFoundError")]
                         /\ UNCHANGED <<heap, failure_events, event_queue>>
                    ELSE /\ heap' = [heap EXCEPT ![ref] = event2]
                         /\ failure_events' = Append(failure_events, EventRow(event2))
                         /\ event_queue' = Append(event_queue, ref)
                         /\ last_step' = [last_step EXCEPT
                                             !.commands = <<cmd>>,
                                             !.recorded = Append(@, EventRow(event2)),
                                             !.outcome = Some(cmd_out = "ok")]
    /\ monitor_i' = IF monitor_i = Len(services_to_check) THEN 0 ELSE monitor_i + 1
    /\ monitor_pc' = "run"
    /\ UNCHANGED <<learned_patterns, solution_cache, analysis_pc, analysis_event,
                   fitted, last_training, applied, last_scan, timer_vars,
                   system_state, detections, last_call, call_vars, clock,
                   last_record, loops_vars>>

\* a pass of the for loop for a container that runs
MonitorHealthyPass ==
    /\ monitor_pc = "run"
    /\ monitor_i \in 1..Len(services_to_check)
    /\ MonitorPass([kind |-> "object", status |-> "running"],
                   [raised |-> None, value |-> None], "ok")

\* the orchestrator with a lookup that answers, its recovery taken in two
\* steps, and the analysis thread
RaceNext ==
    \/ MonitorCollect
    \/ MonitorHealthyPass
    \/ MonitorRecordDetection
    \/ MonitorRecover
    \/ AnalysisGet
    \/ AnalyzeEvent

RaceSpec == Init /\ [][RaceNext]_vars

\* a client that records events while the store fails and recovers, and the
\* analysis thread
StoreRecordFailure ==
    /\ last_record.pending = None
    /\ Len(failure_events) < MaxStoreEvents
    /\ \E ev \in ApiEvents : RecordFailureInsert(ev)

StoreNext ==
    \/ StoreRecordFailure
    \/ RecordFailurePut
    \/ AnalysisGet
    \/ AnalyzeEvent
    \/ AnalyzePatterns
    \/ StoreFails
    \/ StoreRecovers

StoreSpec == Init /\ [][StoreNext]_vars

\* the orchestrator and the analysis thread of one process, with every kind
\* of probe result and a store that fails and recovers
FaultNext ==
    \/ MonitorCollect
    \/ MonitorCheckService
    \/ MonitorCheckFailedProbe
    \/ AnalysisGet
    \/ AnalyzeEvent
    \/ AnalyzePatterns
    \/ StoreFails
    \/ StoreRecovers

FaultSpec == Init /\ [][FaultNext]_vars

\* the event of the timed scenario: a failure with no recovery attempt
ArrivalEvent ==
    FailureEvent(1, "ollama", "200", "container_inactive", "msg", ApiState,
                 None, None, None)

\* an event arrives when the analysis thread has waited one second less
\* than its timeout
ArrivalRecordFailure ==
    /\ analysis_pc = "get"
    /\ event_queue = <<>>
    /\ idle = IdleTimeout - 1
    /\ Len(heap) < MaxArrivalEvents
    /\ RecordFailure(ArrivalEvent)

\* the learner with the time its thread spends in queue.get
ArrivalNext ==
    \/ ArrivalRecordFailure
    \/ AnalysisGet
    \/ AnalyzeEvent
    \/ TimedAnalyzePatterns
    \/ Tick

ArrivalSpec == Init /\ [][ArrivalNext]_vars

\* the orchestrator with a probe that may never return, and the analysis
\* thread; the main thread and the analysis thread are scheduled fairly
HangNext ==
    \/ MonitorCollect
    \/ MonitorCheckService
    \/ MonitorProbeHangs
    \/ AnalysisGet
    \/ AnalyzeEvent
    \/ AnalyzePatterns

FairHangSpec ==
    /\ Init /\ [][HangNext]_vars
    /\ WF_vars(MonitorCollect)
    /\ WF_vars(MonitorCheckService)
    /\ WF_vars(AnalysisGet)
    /\ WF_vars(AnalyzeEvent)
    /\ WF_vars(AnalyzePatterns)

\* the prediction thread and the orchestrator of the failure learning
\* process and the trend-prediction loop, over a store that fails and recovers
LoopsNext ==
    \/ PredictionCycle
    \/ PredictionWake
    \/ TrendCycle
    \/ TrendWake
    \/ MonitorCollect
    \/ MonitorCheckService
    \/ StoreFails
    \/ StoreRecovers

LoopsSpec == Init /\ [][LoopsNext]_vars

\* the events of a client that reports recovery outcomes afterwards: with no
\* recovery fields, with all three, or with the remedy it is about to try
RecoveryEvents ==
    {FailureEvent(1, "ollama", "200", "container_inactive", "msg", ApiState,
                  r[1], r[2], r[3]) :
        r \in Recoveries \cup {<<Some("restart cmd"), None, None>>}}

RecoveryRecordFailure ==
    /\ Len(failure_events) < MaxRecoveryEvents
    /\ \E ev \in RecoveryEvents : RecordFailure(ev)

\* the client reports an outcome under the id that its last record_failure
\* call returned, or under a row id
RecoveryUpdate ==
    /\ last_update.calls < MaxRecoveryCalls
    /\ \E event_id \in {last_record.returned}
                          \cup {Some(n) : n \in 1..(Len(failure_events) + 1)},
          success \in BOOLEAN :
          RecordRecoveryAttempt(event_id, "start cmd", success, 2)

\* the event store with a client that records failures and recovery
\* outcomes, and the analysis thread
RecoveryNext ==
    \/ RecoveryRecordFailure
    \/ RecoveryUpdate
    \/ AnalysisGet
    \/ AnalyzeEvent
    \/ AnalyzePatterns

RecoverySpec == Init /\ [][RecoveryNext]_vars

\* a sample of pattern type t with efficiency n.  The window scenario gives
\* each sample its number as efficiency, so that every sample differs from
\* the others
NumberedSample(t, n) ==
    [pattern_type |-> Some(t), neural_resources |-> [efficiency |-> n]]

\* a cycle that finds one pattern of either type in summary.json
WindowCycle ==
    /\ Len(pattern_history) < MaxWindowSamples
    /\ \E t \in {"neural", "flow"} :
          TrendIteration([kind |-> "ok",
                          patterns |-> <<NumberedSample(t, Len(pattern_history) + 1)>>])

\* the trend-prediction loop fed one numbered sample per cycle
WindowNext ==
    \/ WindowCycle
    \/ TrendWake

WindowSpec == Init /\ [][WindowNext]_vars

\* the efficiency of the first sample of the trend scenario, and the
\* efficiencies that may follow one: a point lower, the same, a point higher
FirstEfficiency == 50
EfficiencySteps == {0 - 1, 0, 1}

\* a cycle that finds one pattern in summary.json, with an efficiency next
\* to that of the cycle before
SlopeCycle ==
    /\ Len(pattern_history) < MaxSlopeSamples
    /\ \E e \in IF pattern_history = <<>> THEN {FirstEfficiency}
                 ELSE {Efficiency(pattern_history[Len(pattern_history)].pattern_state) + d :
                          d \in EfficiencySteps} :
          TrendIteration([kind |-> "ok", patterns |-> <<NumberedSample("neural", e)>>])

\* the trend-prediction loop fed one sample per cycle whose efficiency rises,
\* stays or falls
SlopeNext ==
    \/ SlopeCycle
    \/ TrendWake

SlopeSpec == Init /\ [][SlopeNext]_vars

\* system-state snapshots a client may pass: the numbers are there; no
\* memory_usage; memory_usage a number; load_avg a number; memory_usage a
\* text that is no table; load_avg an empty list
ExtractStates ==
    {[memory_usage |-> [type |-> "str", items |-> <<"free -m">>],
      load_avg |-> [type |-> "list", items |-> <<0>>]],
     ApiState,
     [memory_usage |-> [type |-> "int", items |-> <<512>>],
      load_avg |-> [type |-> "list", items |-> <<0>>]],
     [memory_usage |-> [type |-> "str", items |-> <<"free -m">>],
      load_avg |-> [type |-> "float", items |-> <<1>>]],
     [memory_usage |-> [type |-> "str", items |-> <<"n/a">>],
      load_avg |-> [type |-> "list", items |-> <<0>>]],
     [memory_usage |-> [type |-> "str", items |-> <<"free -m">>],
      load_avg |-> [type |-> "list", items |-> <<>>]]}

ExtractEvents ==
    {FailureEvent(1, t[1], t[3], t[2], "msg", state, None, None, None) :
        t \in ApiTriples, state \in ExtractStates}

ExtractRecordFailure ==
    /\ Len(heap) < MaxExtractEvents
    /\ \E ev \in ExtractEvents : RecordFailure(ev)

\* a client that records events with snapshots of every shape, the analysis
\* thread and the prediction thread
ExtractNext ==
    \/ ExtractRecordFailure
    \/ AnalysisGet
    \/ AnalyzeEvent
    \/ AnalyzePatterns
    \/ PredictionCycle
    \/ PredictionWake

ExtractSpec == Init /\ [][ExtractNext]_vars

\* a cycle whose feature rows have the number of columns the detector was
\* fit on, so that predict scores them instead of raising
ScoringPredictionCycle ==
    /\ Len(failure_predictions) < MaxPredictionRows
    /\ PredictionRun(FitFeatureCount)

\* the loops of ExtractSpec with a detector that scores the feature rows: in
\* the process itself predict raises on every call (NotFittedError, then
\* ValueError for the two columns), so this specification describes
\* _predict_failures with a detector that works as the code expects, not a
\* run of the program as it stands
ScoringNext ==
    \/ ExtractRecordFailure
    \/ AnalysisGet
    \/ AnalyzeEvent
    \/ AnalyzePatterns
    \/ ScoringPredictionCycle
    \/ PredictionWake

ScoringSpec == Init /\ [][ScoringNext]_vars

\* a cycle of the trend loop in which the store may fail or recover between
\* store_pattern_state and store_prediction
TrendFaultCycle ==
    \E file \in SummaryFiles, up_after \in BOOLEAN :
        /\ Len(pattern_history) + Len(file.patterns) <= MaxTrendFaultRows
        /\ TrendRun(file, up_after)

\* the trend-prediction loop with a store that fails and recovers
TrendFaultNext ==
    \/ TrendFaultCycle
    \/ TrendWake
    \/ StoreFails
    \/ StoreRecovers

TrendFaultSpec == Init /\ [][TrendFaultNext]_vars

\* the emergence classification applied to state analyses and sub-patterns
EmergenceNext == ClassifyEmergence

EmergenceSpec == Init /\ [][EmergenceNext]_vars

\* a sample of the scenario of evolution predictions: healthy and connected,
\* with the given efficiency and latency
EvolutionSample(efficiency, latency) ==
    [pattern_type |-> Some("neural"),
     neural_health |-> [status |-> "optimal"],
     flow_state |-> [connected |-> TRUE, latency |-> latency],
     neural_resources |-> [efficiency |-> efficiency]]

\* the latencies of the scenario: 5 ms, and a text that is no number
ReadableLatency == [type |-> "int", items |-> <<5>>]
UnreadableLatency == [type |-> "str", items |-> <<"n/a">>]

\* the efficiency of the sample before the first one, and the points a
\* sample may add to the efficiency of the one before
EfficiencyBeforeFirst == 0
EvolutionSteps == {0, 1}

\* the samples summary.json may hold in the next cycle of the scenario: the
\* efficiency stays or rises by a point; the samples with an unreadable
\* latency are the first ones of a run and their efficiency rises
NextEvolutionSamples ==
    LET n == Len(pattern_history)
        last == IF n = 0 THEN EfficiencyBeforeFirst
                ELSE Efficiency(pattern_history[n].pattern_state)
        unreadable_so_far ==
            \A i \in 1..n : AnalysisError(pattern_history[i].pattern_state) # None
    IN  {EvolutionSample(last + d, ReadableLatency) : d \in EvolutionSteps}
        \cup (IF unreadable_so_far
              THEN {EvolutionSample(last + 1, UnreadableLatency)} ELSE {})

\* a cycle that finds one pattern in summary.json
EvolutionCycle ==
    /\ Len(pattern_history) < MaxEvolutionSamples
    /\ \E sample \in NextEvolutionSamples :
          TrendIteration([kind |-> "ok", patterns |-> <<sample>>])

\* the trend-prediction loop fed one sample per cycle
EvolutionNext ==
    \/ EvolutionCycle
    \/ TrendWake

EvolutionSpec == Init /\ [][EvolutionNext]_vars

\* the addresses requests come from
Clients == {"10.0.0.1", "10.0.0.2"}

\* later readings of time.time(): the last second of a window opened at 1,
\* and the seconds after it
RateInstants == {61, 62, 63}

RateRequest == \E client_ip \in Clients : Request(client_ip)

RateClockAdvance ==
    /\ \E later \in RateInstants : later > clock /\ clock' = later
    /\ UNCHANGED <<engine_vars, main_vars>>

\* requests of two clients at the rate limiter, as time passes
RateNext ==
    \/ RateRequest
    \/ RateClockAdvance

RateSpec == Init /\ [][RateNext]_vars

\* retry_request calls, one after the other, around a function that returns
\* or raises as it likes
RetryNext ==
    \/ RetryStart
    \/ RetryCall
    \/ RetrySleepDone
    \/ RetrySleepCancelled

RetrySpec == Init /\ [][RetryNext]_vars

----------------------------------------------------------------------------
(* Properties *)

\* the pattern keys of the events recorded so far
RecordedKeys ==
    {PatternKey(failure_events[i].service, failure_events[i].error_type,
                failure_events[i].container_id) : i \in 1..Len(failure_events)}

StoredKeys == {learned_patterns[i].pattern_hash : i \in 1..Len(learned_patterns)}

\* number of record_failure calls made with an event of key k: each call
\* inserts one row into failure_events
RecordedCount(k) ==
    Cardinality({i \in 1..Len(failure_events) :
                    PatternKey(failure_events[i].service, failure_events[i].error_type,
                               failure_events[i].container_id) = k})

\* success_count + fail_count stored for key k, 0 without a row
StoredTotal(k) ==
    LET i == RowOf(learned_patterns, k)
    IN  IF i = 0 THEN 0
        ELSE learned_patterns[i].success_count + learned_patterns[i].fail_count

RECURSIVE LastSuccessAttempt(_, _)
LastSuccessAttempt(i, n) ==
    IF n = 0 THEN None
    ELSE IF applied[n].row = i /\ Truthy(applied[n].recovery_success)
    THEN applied[n].recovery_attempt
    ELSE LastSuccessAttempt(i, n - 1)

\* C7: the best_solution of every pattern is the recovery_attempt of the last
\* processed event of that pattern whose recovery_success is true (null when
\* there is none), so an event that is no success leaves it unchanged.
C7_BestSolutionIsLastSuccess ==
    \A i \in 1..Len(learned_patterns) :
        learned_patterns[i].best_solution = LastSuccessAttempt(i, Len(applied))

\* C7 witness: a pattern has processed a success with one remedy, then a
\* success with another, then an event that is no success
C7_Witness ==
    \E a, b, c \in 1..Len(applied) :
        /\ a < b /\ b < c
        /\ applied[a].row = applied[b].row /\ applied[b].row = applied[c].row
        /\ Truthy(applied[a].recovery_success) /\ Truthy(applied[b].recovery_success)
        /\ applied[a].recovery_attempt # applied[b].recovery_attempt
        /\ ~Truthy(applied[c].recovery_success)
        /\ learned_patterns[applied[b].row].best_solution = applied[b].recovery_attempt

\* the learner with its analysis thread scheduled fairly: a daemon thread
\* that can take a step is eventually given the processor
FairLearnerSpec ==
    /\ LearnerSpec
    /\ WF_vars(AnalysisGet)
    /\ WF_vars(AnalyzeEvent)
    /\ WF_vars(AnalyzePatterns)

ScenarioKey == PatternKey("ollama", "container_inactive", "200")

\* the scenario's events have all been applied and a scan has run after them
ScenarioDone ==
    /\ Len(applied) = 10
    /\ event_queue = <<>>
    /\ RowOf(learned_patterns, ScenarioKey) # 0
    /\ learned_patterns[RowOf(learned_patterns, ScenarioKey)].success_count = 9
    /\ learned_patterns[RowOf(learned_patterns, ScenarioKey)].fail_count = 1
    /\ last_scan.ran
    /\ last_scan.after = 10

\* C2: after 9 successful recoveries with remedy "restart cmd" and 1 failed
\* one of a key have been analyzed and a scan has run, the solution cache
\* holds the key and get_recovery_solution returns that remedy for it.
C2_ScenarioCached ==
    ScenarioDone =>
        /\ ScenarioKey \in DOMAIN solution_cache
        /\ LET r == GetRecoverySolution(solution_cache, learned_patterns,
                                        "ollama", "container_inactive", "200")
           IN  /\ r.raised = None
               /\ r.value # None
               /\ TheValue(r.value).solution = Some("restart cmd")

RecordedSuccesses(k) ==
    Cardinality({i \in 1..Len(failure_events) :
                    /\ PatternKey(failure_events[i].service, failure_events[i].error_type,
                                  failure_events[i].container_id) = k
                    /\ failure_events[i].recovery_success = Some(1)})

\* the events recorded for key k have a success rate of 0.8 or less
RecordedRateLow(k) ==
    /\ RecordedCount(k) > 0
    /\ 10 * RecordedSuccesses(k) <= 8 * RecordedCount(k)

C5_UnseenKeyReturnsNone ==
    (/\ last_call.called
     /\ RecordedCount(PatternKey(last_call.service, last_call.error_type,
                                 last_call.container_id)) = 0)
        => (last_call.raised = None /\ last_call.value = None)

\* key k has processed a successful recovery, nothing waits to be processed
\* and a scan has run since the last event was processed
LearnedAndScanned(k) ==
    /\ RowOf(learned_patterns, k) # 0
    /\ LastSuccessAttempt(RowOf(learned_patterns, k), Len(applied)) # None
    /\ event_queue = <<>>
    /\ analysis_pc # "analyze"
    /\ last_scan.ran
    /\ last_scan.after = Len(applied)

\* C6: a call of get_recovery_solution for a key with a processed successful
\* recovery returns the remedy of the key's most recent success.
C6_ReturnsMostRecentSuccess ==
    [][\A t \in ApiTriples :
          (/\ CallGetRecoverySolution(t[1], t[2], t[3])
           /\ LearnedAndScanned(PatternKey(t[1], t[2], t[3])))
             => /\ last_call'.raised = None
                /\ last_call'.value # None
                /\ TheValue(last_call'.value).solution =
                       LastSuccessAttempt(RowOf(learned_patterns,
                                                PatternKey(t[1], t[2], t[3])),
                                          Len(applied))]_vars

SameFields(e1, e2) ==
    /\ e1.service = e2.service
    /\ e1.error_type = e2.error_type
    /\ e1.container_id = e2.container_id

\* C8: two processed events update the same learned-pattern row if and only
\* if their service, error_type and container_id are all equal.
C8_SameRowIffSameFields ==
    \A i, j \in 1..Len(applied) :
        (applied[i].row = applied[j].row)
            <=> SameFields(heap[applied[i].event], heap[applied[j].event])

\* the orchestrator's last step found its service unhealthy while the
\* solution cache held an entry for the service's key
UnhealthyWithCachedSolution ==
    last_step.ran /\ last_step.unhealthy /\ last_step.cached

TextsWithRestart == {Some("restart cmd")}

NextService == services_to_check[monitor_i]

\* the orchestrator's step is a failure detection
Detects == detections' = detections + 1

HandedCount(v) ==
    Cardinality({i \in 1..Len(event_queue) : EventRow(heap[event_queue[i]]) = v})
    + (IF analysis_event # 0 /\ EventRow(heap[analysis_event]) = v THEN 1 ELSE 0)
    + Cardinality({j \in 1..Len(applied) : EventRow(heap[applied[j].event]) = v})

\* number of committed rows of failure_events equal to v
CommittedCount(v) ==
    Cardinality({i \in 1..Len(failure_events) : failure_events[i] = v})

\* C13: every event that is on the queue, held by the analysis thread or
\* applied to learned_patterns has its own committed row in failure_events;
\* so an event whose insert failed is not on the queue.
C13_HandedEventsAreCommitted ==
    \A ref \in 1..Len(heap) :
        HandedCount(EventRow(heap[ref])) <= CommittedCount(EventRow(heap[ref]))

\* C13 witness: the last record_failure call failed at its insert, while
\* events recorded before it are on the queue and applied
C13_Witness ==
    /\ last_record.called
    /\ last_record.raised # None
    /\ event_queue # <<>>
    /\ applied # <<>>
    /\ Len(heap) = Len(failure_events)

\* the service after the i-th in the for loop, 0 for the end of the iteration
AfterService(i) == IF i = Len(services_to_check) THEN 0 ELSE i + 1

\* C14: whatever a pass of the for loop raises, the orchestrator keeps
\* running and goes from each service to the next one of the list, and from
\* the last one to the next iteration.
C14_PassGoesToNextService ==
    [][/\ monitor_pc' = "run"
       /\ (monitor_i \in 1..Len(services_to_check) /\ monitor_i' # monitor_i)
             => monitor_i' = AfterService(monitor_i)]_vars

\* C14 witness: the pass for the first service has raised an error of the
\* store, and the loop is about to probe the second service
C14_Witness ==
    /\ last_step.ran
    /\ last_step.service = services_to_check[1][1]
    /\ last_step.raised = Some("OperationalError")
    /\ monitor_pc = "run"
    /\ monitor_i = 2

\* C15: the analysis thread never terminates.
C15_AnalysisThreadNeverEnds == analysis_pc # "dead"

\* C17: a pass that finds its service unhealthy while the store cannot
\* persist the event goes on to look up the solution cache.
C17_StoreFailureStillLooksUp ==
    (last_step.ran /\ last_step.store_failed) => last_step.looked_up

\* C18: when the probe fails (non-zero exit, output that is no JSON object,
\* pvesh not started), check_container_status returns the status "error".
C18_FailedProbeGivesError ==
    (last_step.ran /\ last_step.probe # "object") => last_step.status = "error"

\* C16: never more than one training interval passes without a scan.
C16_ScannedEveryTrainingInterval == scan_age <= TrainingInterval

\* C19: an iteration of the recovery loop that has started on its first
\* service eventually ends (the loop is back at the top of the while), even
\* when a probe never returns.
C19_IterationCompletes == (monitor_i = 1) ~> (monitor_i = 0)

\* C20: none of the anomaly-prediction loop, the trend-prediction loop and
\* the recovery-orchestration loop ever terminates, whatever their
\* iterations raise.
C20_LoopsNeverEnd ==
    /\ prediction.pc # "dead"
    /\ trend.pc # "dead"
    /\ monitor_pc # "dead"

\* C20 witness: an iteration of each loop has raised (the detector was not
\* fitted, summary.json was missing, the lookup raised), and each loop is at
\* the start of a next iteration
C20_Witness ==
    /\ prediction.raised = Some("NotFittedError")
    /\ prediction.pc = "predict"
    /\ trend.raised = Some("FileNotFoundError")
    /\ trend.pc = "cycle"
    /\ last_step.raised = Some("NameError")
    /\ monitor_pc = "run"
    /\ monitor_i = 0

\* success_count and fail_count stored for key k, 0 without a row
SuccessCountOf(patterns, k) ==
    IF RowOf(patterns, k) = 0 THEN 0 ELSE patterns[RowOf(patterns, k)].success_count

FailCountOf(patterns, k) ==
    IF RowOf(patterns, k) = 0 THEN 0 ELSE patterns[RowOf(patterns, k)].fail_count

KeysOf(patterns) == {patterns[i].pattern_hash : i \in 1..Len(patterns)}

\* C21: for every pattern key, success_count and fail_count never decrease
\* in any step, and the step in which _analyze_event processes an event adds
\* exactly 1 to exactly one of the two counts of the event's key and leaves
\* the counts of every other key unchanged.
C21_CountsGrowByOnePerEvent ==
    [][/\ \A k \in KeysOf(learned_patterns) \cup KeysOf(learned_patterns') :
            /\ SuccessCountOf(learned_patterns', k) >= SuccessCountOf(learned_patterns, k)
            /\ FailCountOf(learned_patterns', k) >= FailCountOf(learned_patterns, k)
       /\ Len(applied') > Len(applied) =>
            LET key == EventKey(heap[analysis_event])
                ds == SuccessCountOf(learned_patterns', key)
                          - SuccessCountOf(learned_patterns, key)
                df == FailCountOf(learned_patterns', key)
                          - FailCountOf(learned_patterns, key)
            IN  /\ <<ds, df>> \in {<<1, 0>>, <<0, 1>>}
                /\ \A k \in (KeysOf(learned_patterns) \cup KeysOf(learned_patterns')) \ {key} :
                      /\ SuccessCountOf(learned_patterns', k)
                             = SuccessCountOf(learned_patterns, k)
                      /\ FailCountOf(learned_patterns', k)
                             = FailCountOf(learned_patterns, k)]_vars

\* C21 witness: two keys are stored; one of them has counted a success and
\* then an event that was no success, after the other key got its row
C21_Witness ==
    /\ Len(learned_patterns) = 2
    /\ Len(applied) = 3
    /\ \E i \in 1..2 :
          /\ learned_patterns[i].success_count = 1
          /\ learned_patterns[i].fail_count = 1
          /\ learned_patterns[3 - i].success_count + learned_patterns[3 - i].fail_count = 1

\* the recovery fields of a row are all null or all non-null
RecoveryFieldsTogether(row) ==
    \/ row.recovery_attempt = None /\ row.recovery_success = None
          /\ row.recovery_time = None
    \/ row.recovery_attempt # None /\ row.recovery_success # None
          /\ row.recovery_time # None

\* C22: after any sequence of record_failure and record_recovery_attempt
\* calls, every row of failure_events has recovery_attempt, recovery_success
\* and recovery_time either all null or all non-null.
C22_RecoveryFieldsTogether ==
    \A i \in 1..Len(failure_events) : RecoveryFieldsTogether(failure_events[i])

\* C23: a record_recovery_attempt call made with the id that record_failure
\* returned for an event sets the three recovery fields of that event's row
\* and changes no other row; a call with an id that matches no row changes no
\* row; and no call changes a learned pattern, the solution cache or the
\* event queue.
C23_UpdateSetsRowOfReturnedId ==
    [][last_update'.calls > last_update.calls =>
          LET id == last_update'.event_id
              r == last_record.row
          IN  /\ UNCHANGED <<learned_patterns, solution_cache, event_queue>>
              /\ (last_record.called /\ last_record.raised = None
                      /\ id = last_record.returned) =>
                    /\ failure_events'[r].recovery_attempt = Some(last_update'.attempt)
                    /\ failure_events'[r].recovery_success
                           = SqlBool(Some(last_update'.success))
                    /\ failure_events'[r].recovery_time = Some(last_update'.time_taken)
                    /\ \A i \in 1..Len(failure_events) :
                          i # r => failure_events'[i] = failure_events[i]
              /\ (\A i \in 1..Len(failure_events) : id # Some(i)) =>
                    failure_events' = failure_events]_vars

\* C24: every event written with record_failure and read back from the
\* store has each field that is read equal to the value written, the nested
\* system-state mapping included.  (Row i holds the event of reference i.)
C24_ReadBackEqualsWritten ==
    \A i \in 1..Len(failure_events) :
        i <= Len(heap) =>
            LET back == ReadEvent(failure_events[i])
            IN  /\ back.timestamp = heap[i].timestamp
                /\ back.service = heap[i].service
                /\ back.container_id = heap[i].container_id
                /\ back.error_type = heap[i].error_type
                /\ back.system_state = heap[i].system_state

\* the samples given for pattern type t, in arrival order: main stores each
\* sample in pattern_history just before it calls predict_evolution with it
GivenSamples(history, t) ==
    LET of_t == SelectSeq(history, LAMBDA row : row.pattern_type = t)
    IN  [i \in 1..Len(of_t) |-> of_t[i].pattern_state]

\* the last n elements of a sequence, all of it when it is shorter
LastN(seq, n) == IF Len(seq) <= n THEN seq ELSE SubSeq(seq, Len(seq) - n + 1, Len(seq))

\* C25: after every predict_evolution call each pattern type's rolling window
\* holds at most pattern_window samples, and they are the most recent samples
\* given for that type, in arrival order; and a call for one pattern type
\* leaves the window of every other type unchanged.
C25_WindowHoldsMostRecent ==
    [][/\ \A t \in DOMAIN pattern_memory' :
            /\ Len(pattern_memory'[t]) <= pattern_window
            /\ pattern_memory'[t] = LastN(GivenSamples(pattern_history', t), pattern_window)
       /\ Len(pattern_history') = Len(pattern_history) + 1 =>
            \A t \in DOMAIN pattern_memory :
                t # pattern_history'[Len(pattern_history')].pattern_type =>
                    pattern_memory'[t] = pattern_memory[t]]_vars

\* C25 witness: one type has been given more samples than a window holds, so
\* its oldest sample is gone, and another type has a window of its own
C25_Witness ==
    \E t, u \in DOMAIN pattern_memory :
        /\ t # u
        /\ Len(GivenSamples(pattern_history, t)) > pattern_window
        /\ Len(pattern_memory[t]) = pattern_window
        /\ pattern_memory[t][1] # GivenSamples(pattern_history, t)[1]
        /\ pattern_memory[u] # <<>>

\* some sub-pattern of the last classification has a confidence above 0.85
SomeStrongPattern ==
    \E i \in 1..Len(last_emergence.patterns) :
        FracGT(last_emergence.patterns[i].confidence, 85, 100)

\* C26: the emergence classification follows the decision table in order:
\* overall_health < 0.5 gives degradation whatever the other inputs are;
\* otherwise, with a sub-pattern confidence above 0.85, resource_pressure > 0.8
\* gives resource_optimization, else flow_health < 0.7 gives flow_enhancement,
\* else pattern_evolution; otherwise stable_operation.  The value is always
\* one of the five.
C26_EmergenceFollowsTable ==
    last_emergence.called =>
        LET a == last_emergence.state_analysis
            value == last_emergence.value
        IN  /\ value \in {"degradation", "resource_optimization", "flow_enhancement",
                           "pattern_evolution", "stable_operation"}
            /\ a.overall_health < 50 => value = "degradation"
            /\ (a.overall_health >= 50 /\ SomeStrongPattern /\ a.resource_pressure > 80)
                   => value = "resource_optimization"
            /\ (a.overall_health >= 50 /\ SomeStrongPattern /\ a.resource_pressure <= 80
                    /\ a.flow_health < 70) => value = "flow_enhancement"
            /\ (a.overall_health >= 50 /\ SomeStrongPattern /\ a.resource_pressure <= 80
                    /\ a.flow_health >= 70) => value = "pattern_evolution"
            /\ (a.overall_health >= 50 /\ ~SomeStrongPattern) => value = "stable_operation"

\* C26 witness: a low health is classified as degradation although a strong
\* sub-pattern, a high resource pressure and a low flow health are present
C26_Witness ==
    /\ last_emergence.called
    /\ last_emergence.state_analysis.overall_health = 30
    /\ last_emergence.state_analysis.resource_pressure = 81
    /\ last_emergence.state_analysis.flow_health = 69
    /\ SomeStrongPattern
    /\ last_emergence.value = "degradation"

\* the efficiencies of the samples of a window
Efficiencies(window) == [i \in 1..Len(window) |-> Efficiency(window[i])]

\* sign of the least-squares slope of a series against its positions: that of
\* the sum over all pairs i < j of (j - i) * (y[j] - y[i])
SlopeSignSum(y) ==
    SumSeq([i \in 1..Len(y) |-> SumSeq([j \in 1..Len(y) |->
               IF i < j THEN (j - i) * (y[j] - y[i]) ELSE 0])])

\* the sub-patterns stored with the last prediction
LastSignature == pattern_predictions[Len(pattern_predictions)].pattern_signature

\* C27: for a window of pattern_window samples, detect_patterns reports
\* resource_evolution with direction "increasing" and a confidence above 0
\* when the efficiencies are strictly increasing, with "decreasing" and a
\* confidence above 0 when they are strictly decreasing, and with confidence
\* 0 when they are constant; the direction is "increasing" exactly when the
\* least-squares slope is positive.
C27_ResourceTrendFollowsSlope ==
    (pattern_predictions # <<>> /\ Len(pattern_memory["neural"]) = pattern_window) =>
        LET y == Efficiencies(pattern_memory["neural"])
            res == LastSignature[1]
        IN  /\ Len(LastSignature) = 3
            /\ res.type = "resource_evolution"
            /\ (\A i \in 1..(Len(y) - 1) : y[i] < y[i + 1]) =>
                   res.direction = "increasing" /\ FracGT(res.confidence, 0, 1)
            /\ (\A i \in 1..(Len(y) - 1) : y[i] > y[i + 1]) =>
                   res.direction = "decreasing" /\ FracGT(res.confidence, 0, 1)
            /\ (\A i \in 1..(Len(y) - 1) : y[i] = y[i + 1]) => res.confidence[1] = 0
            /\ res.direction = "increasing" <=> SlopeSignSum(y) > 0
            /\ res.direction \in {"increasing", "decreasing"}

\* C27 witness: a full window of strictly increasing efficiencies has been
\* reported as increasing with confidence 1
C27_Witness ==
    /\ pattern_predictions # <<>>
    /\ "neural" \in DOMAIN pattern_memory
    /\ Len(pattern_memory["neural"]) = pattern_window
    /\ \A i \in 1..(pattern_window - 1) :
          Efficiency(pattern_memory["neural"][i]) < Efficiency(pattern_memory["neural"][i + 1])
    /\ LastSignature[1].direction = "increasing"
    /\ LastSignature[1].confidence[1] = LastSignature[1].confidence[2]

\* C28: while the anomaly detector has never been fit, no prediction cycle
\* has inserted a row into failure_predictions, whatever events are recent.
C28_NoPredictionBeforeTraining ==
    ~fitted => failure_predictions = <<>>

\* C28 witness: a prediction cycle has run over recent events that yield
\* features while the detector was not fit, and the table is empty
C28_Witness ==
    /\ ~fitted
    /\ prediction.pc = "sleep"
    /\ prediction.raised = Some("NotFittedError")
    /\ \E i \in 1..Len(failure_events) : YieldsFeatures(failure_events[i])
    /\ failure_predictions = <<>>

\* C30: a stored snapshot that cannot yield the memory-usage and load-average
\* numbers makes feature extraction skip that row only: no error of the
\* extraction of a row ends the prediction cycle.
C30_BadSnapshotSkipsRowOnly ==
    prediction.raised \cap {"JSONDecodeError", "IndexError", "AttributeError", "TypeError"}
        = {}

\* C29: a scan that finds no pattern with success_count + fail_count > 0
\* does not retrain the detector: in every step taken while no such pattern
\* is stored, a scan among them, the model and last_training stay as they
\* were.
C29_EmptyScanKeepsModel ==
    [][(\A i \in 1..Len(learned_patterns') :
            learned_patterns'[i].success_count + learned_patterns'[i].fail_count = 0)
          => (fitted' = fitted /\ last_training' = last_training)]_vars

\* C29 witness: a scan has run to its end over an empty learned_patterns
\* table, and the detector is still unfit
C29_Witness ==
    /\ last_scan.ran
    /\ last_scan.raised = None
    /\ learned_patterns = <<>>
    /\ ~fitted
    /\ last_training = 0

\* the rows of failure_events a prediction cycle started now would select
RecentEvents ==
    SelectSeq(failure_events, LAMBDA r : r.timestamp > clock - RecentWindow)

\* C31: once the detector has been fit by _analyze_patterns, a prediction
\* cycle over recent events whose snapshots yield features scores them
\* against the model: it ends without an error (and stores a prediction for
\* each group with an outlier).
C31_TrainedCycleScoresGroups ==
    [][(/\ prediction.pc = "predict"
        /\ prediction'.pc # "predict"
        /\ fitted
        /\ store_up
        /\ \E i \in 1..Len(RecentEvents) : YieldsFeatures(RecentEvents[i])
        /\ \A i \in 1..Len(RecentEvents) : ~ExtractionEscapes(RecentEvents[i]))
          => prediction'.raised = None]_vars

\* the stored predictions of a pattern type, in the order they were stored
PredictionsOf(t) == SelectSeq(pattern_predictions, LAMBDA p : p.pattern_type = t)

\* the sub-patterns are none, or the three types in order with confidences
\* that are not negative
WellFormedSignature(patterns) ==
    \/ patterns = <<>>
    \/ /\ Len(patterns) = 3
       /\ patterns[1].type = "resource_evolution"
       /\ patterns[2].type = "health_evolution"
       /\ patterns[3].type = "flow_evolution"
       /\ \A i \in 1..3 : patterns[i].confidence[1] >= 0 /\ patterns[i].confidence[2] > 0

\* C32, as stated: the first pattern_window - 1 predictions stored for a
\* pattern type are classified only as degradation or stable_operation.
C32_FirstPredictionsAreCalm ==
    \A t \in {"neural", "flow"} :
        \A j \in 1..Len(PredictionsOf(t)) :
            j <= pattern_window - 1
                => PredictionsOf(t)[j].emergence_type \in {"degradation", "stable_operation"}

\* C32, amended: a prediction computed over a window of fewer than
\* pattern_window samples has no sub-pattern and is classified only as
\* degradation or stable_operation; one computed over a full window has
\* exactly the three sub-patterns resource_evolution, health_evolution and
\* flow_evolution, in that order, each with a non-negative confidence.
C32_ShortWindowPredictionsAreCalm ==
    [][Len(pattern_predictions') = Len(pattern_predictions) + 1 =>
        LET p == pattern_predictions'[Len(pattern_predictions')]
            window == pattern_memory'[p.pattern_type]
        IN  /\ WellFormedSignature(p.pattern_signature)
            /\ (p.pattern_signature = <<>>) <=> (Len(window) < pattern_window)
            /\ Len(window) < pattern_window
                   => p.emergence_type \in {"degradation", "stable_operation"}]_vars

\* C32 witness: predictions have been stored over short windows and over a
\* full one, the latter with the three sub-patterns and another class
C32_Witness ==
    /\ Len(pattern_predictions) >= pattern_window
    /\ pattern_predictions[1].pattern_signature = <<>>
    /\ pattern_predictions[1].emergence_type = "stable_operation"
    /\ Len(pattern_predictions[pattern_window].pattern_signature) = 3
    /\ pattern_predictions[pattern_window].emergence_type = "pattern_evolution"

\* the stored states whose analysis raises nothing: each of them has its
\* prediction, in the same order
ReadableHistory ==
    SelectSeq(pattern_history, LAMBDA h : AnalysisError(h.pattern_state) = None)

\* C33: the state analysis stored with the prediction of a sample whose
\* resource efficiency is 0 or less, or absent, has resource_pressure 0.
C33_IdleSampleHasNoPressure ==
    \A j \in 1..Len(pattern_predictions) :
        (j <= Len(ReadableHistory) /\ Efficiency(ReadableHistory[j].pattern_state) <= 0)
            => pattern_predictions[j].neural_state.resource_pressure = 0

\* the number of sub-patterns whose confidence is above 0.85
StrongCount(patterns) ==
    Cardinality({i \in 1..Len(patterns) :
                    patterns[i].confidence[1] * 100 > 85 * patterns[i].confidence[2]})

\* C34: the evolution_confidence of every stored prediction is the
\* overall_health of its sample times 0.9 ^ k, k being the number of its
\* sub-patterns with a confidence strictly above 0.85, k is at most 3, and
\* the confidence lies between 0 and 1.
C34_ConfidenceIsHealthTimesPowerOfNineTenths ==
    \A j \in 1..Len(pattern_predictions) :
        LET p == pattern_predictions[j]
            k == StrongCount(p.pattern_signature)
            c == p.evolution_confidence
        IN  /\ k \in 0..3
            /\ c[1] * (100 * 10 ^ k) = (p.neural_state.overall_health * 9 ^ k) * c[2]
            /\ c[2] > 0 /\ 0 <= c[1] /\ c[1] <= c[2]

\* C34 witness: one stored prediction has no strong sub-pattern over a full
\* window and keeps the overall health, another has one and is lowered once
C34_Witness ==
    \E j1, j2 \in 1..Len(pattern_predictions) :
        /\ Len(pattern_predictions[j1].pattern_signature) = 3
        /\ StrongCount(pattern_predictions[j1].pattern_signature) = 0
        /\ pattern_predictions[j1].evolution_confidence
               = <<pattern_predictions[j1].neural_state.overall_health, 100>>
        /\ StrongCount(pattern_predictions[j2].pattern_signature) = 1
        /\ pattern_predictions[j2].evolution_confidence
               = <<pattern_predictions[j2].neural_state.overall_health * 9, 1000>>

AppliedRefs == [k \in 1..Len(applied) |-> applied[k].event]

\* C36: the entries applied to learned_patterns are applied once each and in
\* the order of their puts, nothing applied or held by the thread is still
\* on the queue, and the step that ends the analysis of an event, raising or
\* not, puts nothing on the queue.
C36_AppliedOnceInOrder ==
    [][/\ \A i, j \in 1..Len(applied') :
              i < j => AppliedRefs'[i] < AppliedRefs'[j]
       /\ \A q \in 1..Len(event_queue') :
              /\ \A i \in 1..Len(applied') : AppliedRefs'[i] < event_queue'[q]
              /\ analysis_event' < event_queue'[q]
       /\ (analysis_pc = "analyze" /\ analysis_pc' # "analyze")
              => event_queue' = event_queue]_vars

\* C36 witness: three events were put; the first and the third are applied,
\* the analysis of the second raised, and the queue is empty
C36_Witness ==
    /\ Len(heap) = 3
    /\ AppliedRefs = <<1, 3>>
    /\ event_queue = <<>>
    /\ analysis_pc = "get"

HistoryOf(t) == SelectSeq(pattern_history, LAMBDA h : h.pattern_type = t)

\* C38: for every pattern type there are at most as many rows in
\* pattern_predictions as in pattern_history, and every sample of the type's
\* rolling window is the state of a pattern_history row of the type.
C38_HistoryBeforePrediction ==
    \A t \in {"neural", "flow"} :
        /\ Len(PredictionsOf(t)) <= Len(HistoryOf(t))
        /\ t \in DOMAIN pattern_memory =>
              \A i \in 1..Len(pattern_memory[t]) :
                  \E h \in 1..Len(HistoryOf(t)) :
                      HistoryOf(t)[h].pattern_state = pattern_memory[t][i]

\* C38 witness: a type has a stored state in its window whose prediction
\* could not be stored, after one whose prediction was
C38_Witness ==
    /\ Len(HistoryOf("neural")) = 2
    /\ Len(PredictionsOf("neural")) = 1
    /\ Len(pattern_memory["neural"]) = 2
    /\ trend.raised = Some("OperationalError")

\* C39: for each client address, within one window (RATE_LIMIT_DURATION seconds
\* from the client's first counted request) at most RATE_LIMIT_REQUESTS requests
\* pass check_rate_limit and every further one is rejected with status 429;
\* the first request of a window, also the one arriving after the last window
\* has expired, passes and leaves the count at 1
C39_AtMostThirtyPassPerWindow ==
    /\ \A ip \in DOMAIN rate_window :
          rate_window[ip].passed = IF rate_window[ip].seen <= RATE_LIMIT_REQUESTS
                                   THEN rate_window[ip].seen ELSE RATE_LIMIT_REQUESTS
    /\ last_request.called =>
          LET ip == last_request.client_ip
              w == rate_window[ip]
          IN  /\ last_request.raised \in {None, Some(429)}
              /\ (last_request.raised = Some(429)) <=> (w.seen > RATE_LIMIT_REQUESTS)
              /\ w.seen = 1 =>
                    /\ last_request.raised = None
                    /\ rate_limit_data[ip] = [count |-> 1, start_time |-> last_request.current_time]

\* a client that was rejected in its first window is admitted again by the
\* first request after that window expired, while the other client has gone
\* over the limit in its own window
C39_Witness ==
    /\ last_request.called
    /\ LET ip == last_request.client_ip
       IN  /\ rate_window[ip].number = 2
           /\ rate_window[ip].seen = 1
           /\ rate_window[ip].rejected >= 1
           /\ last_request.raised = None
           /\ rate_limit_data[ip].count = 1
           /\ \E other \in DOMAIN rate_window \ {ip} :
                 /\ rate_window[other].seen > RATE_LIMIT_REQUESTS
                 /\ rate_window[other].passed = RATE_LIMIT_REQUESTS

\* the calls of the wrapped function that failed, among the first n
FailedAmong(calls, n) == \A j \in 1..n : ~calls[j].ok

\* C40: retry_request calls the wrapped function at most MAX_RETRIES times; it
\* returns the result of the first call that succeeds and makes no further
\* call; if all three calls fail it raises the exception of the third; and
\* after the k-th failed attempt (k = 1, 2) it waits RETRY_DELAY * k seconds
\* before the next call
C40_AtMostThreeCallsWithGrowingWaits ==
    LET n == Len(retry.calls)
    IN  /\ n <= MAX_RETRIES
        /\ FailedAmong(retry.calls, n - 1)
        /\ n >= 1 /\ retry.calls[n].ok =>
              /\ retry.pc = "returned"
              /\ retry.outcome = Some(retry.calls[n])
        /\ retry.pc = "returned" => n >= 1 /\ retry.calls[n].ok
        /\ n = MAX_RETRIES /\ FailedAmong(retry.calls, n) =>
              /\ retry.pc = "raised"
              /\ retry.outcome = Some(retry.calls[MAX_RETRIES])
        /\ \A k \in 1..Len(retry.waits) : retry.waits[k] = RETRY_DELAY * k
        /\ retry.pc = "sleep" => Len(retry.waits) = n
        /\ retry.pc = "call" => n = retry.attempt /\ Len(retry.waits) = n
        /\ n >= 2 => Len(retry.waits) >= n - 1

\* a retry_request whose first two calls failed stands before its third call,
\* having waited 1 and then 2 seconds
C40_Witness ==
    /\ retry.pc = "call"
    /\ retry.attempt = 2
    /\ Len(retry.calls) = 2
    /\ retry.waits = <<RETRY_DELAY, 2 * RETRY_DELAY>>

====
